---- MODULE Spec2Model ----
(***************************************************************************)
(* Storage engine of the ib backup server (internal/storage/storage.go):   *)
(* the blocks / manifests / block_refs tables, the object store, the write *)
(* gate writeMu, and the goroutines that run SaveBlock, BlockExists,       *)
(* SaveManifest, DeleteManifest and PruneManifests concurrently.           *)
(***************************************************************************)
EXTENDS Integers, FiniteSets, Sequences, TLC

\* ------------------------------------------------------------------ bounds
NumManifests == 2     \* manifest ids 1..NumManifests
NumProcs == 1         \* request goroutines running beside the pruner
MaxTime == 2          \* instants 0..MaxTime, in ticks
TicksPerSecond == 2   \* sub-second resolution of an instant

\* ------------------------------------------------------- program constants
InlineThreshold == 256 * 1024

\* The content identifiers in play.
Cids == {1}
MIds == 1..NumManifests
Pruner == 0
Workers == 1..NumProcs
Procs == {Pruner} \cup Workers

\* A Go []byte value: its length and an abstract body.  NilBytes is the nil
\* slice (SQL NULL when bound or scanned).
NilBytes == [len |-> -1, body |-> "nil"]
EmptyBytes == [len |-> 0, body |-> "e"]
DataSet ==
  { EmptyBytes,
    [len |-> InlineThreshold - 1, body |-> "a"],
    [len |-> InlineThreshold, body |-> "a"],
    [len |-> InlineThreshold, body |-> "b"] }
\* The bodies uploaded where only the routing of a block matters: the
\* largest inline block and the smallest external one.
RoutingData == {d \in DataSet : d.len > 0 /\ d.body = "a"}

\* The empty string, as an object key.
NoKey == 0

VARIABLES
  blocks,      \* table blocks: cid -> row
  manifests,   \* table manifests: id -> row
  block_refs,  \* table block_refs: set of <<manifest_id, cid>>
  s3,          \* object store: key -> object bytes, NilBytes when absent
  writeMu,     \* holder of the write gate, -1 when free
  pc,          \* position of every goroutine
  arg,         \* arguments and live locals of the running operation
  res,         \* result of the operation that is about to return
  known,       \* CIDs a backup client holds in the block lists of its entries
  tree,        \* the directory tree a client backs up: path -> file system entry
  srv,         \* the server as the client's requests see it: blocks, latest manifest
  run,         \* runCreate / Creator.Create: phase, prior manifest, entries, manifest
  wk,          \* the per-file goroutines of Create: path -> locals
  out,         \* Restorer.Restore: phase and the files written
  api,         \* the HTTP handlers over the manifest and block tables, and the reply
  limiter,     \* authMiddleware and its RateLimiter: clock, blocked IPs, the answer
  ipreq,       \* GetRealIP: the headers of a request and the address returned
  folder,      \* handleDownloadFolder: manifest, prefix and the archive emitted
  task,        \* runPruner: position of the retention loop
  pool,        \* Creator.Create: the semaphore and the per-file goroutines
  rest,        \* Restorer.restoreFile: downloads, result slots, the file written
  arch,        \* streamTarGz / streamZip: entries, request context, bytes emitted
  scan         \* Scanner.Scan: the walk and the IgnoreMatcher

storageVars == <<blocks, manifests, block_refs, s3, writeMu, pc, arg, res, known>>
clientVars == <<tree, srv, run, wk, out>>
serverVars == <<api, limiter, ipreq, folder, task, pool, rest, arch, scan>>
vars == <<blocks, manifests, block_refs, s3, writeMu, pc, arg, res, known,
          tree, srv, run, wk, out, api, limiter, ipreq, folder, task, pool, rest, arch, scan>>

NoBlock == [present |-> FALSE, size |-> 0, inline_data |-> NilBytes, s3_key |-> NoKey]
NoManifest == [present |-> FALSE, created_at |-> 0, blocks |-> {}]
Free == -1

ZeroArg ==
  [cid |-> 0, data |-> NilBytes, inlineData |-> NilBytes, s3Key |-> NoKey,
   mid |-> 0, created_at |-> 0, mblocks |-> {}, cutoffUnix |-> 0,
   toDelete |-> {}, s3Keys |-> {}, rowsDone |-> {}]

\* time.Time.Unix(): whole seconds of an instant.
Unix(t) == t \div TicksPerSecond

\* The DSN of New sets busy_timeout and journal_mode only; it never sets
\* PRAGMA foreign_keys, so SQLite leaves foreign key enforcement off and
\* ON DELETE CASCADE of block_refs does not run.
ForeignKeysEnabled == FALSE

\* block_refs after the manifests ids are deleted.
CascadeRefs(refs, ids) ==
  IF ForeignKeysEnabled THEN {r \in refs : r[1] \notin ids} ELSE refs

\* SaveBlock line 108: inline routing test.
IsInlineLE(data) == data.len <= InlineThreshold
IsInline(data) == data.len < InlineThreshold

\* sync.Mutex.Lock proceeds only when the gate is free.
CanLockAlways == TRUE
CanLock == writeMu = Free

\* pruneOrphanedBlocksLocked lines 287-291: blocks LEFT JOIN block_refs
\* WHERE br.cid IS NULL.
OrphanedBlocksAll == {c \in Cids : blocks[c].present}
OrphanedBlocksExternalOnly ==
  {c \in Cids : blocks[c].present /\ blocks[c].s3_key # NoKey
                /\ ~ \E r \in block_refs : r[2] = c}
OrphanedBlocks ==
  {c \in Cids : blocks[c].present /\ ~ \E r \in block_refs : r[2] = c}

\* What a later Scan of the inline_data column yields for a []byte that was
\* bound on insert.  A nil slice is NULL.  For a non-nil slice of length 0
\* the driver decides whether the column reads back as an empty slice or as
\* nil; both are outcomes a build can produce.
StoredBlob(data) ==
  IF data = NilBytes THEN {NilBytes}
  ELSE IF data.len = 0 THEN {NilBytes, EmptyBytes}
  ELSE {data}

\* GetBlock lines 129-153.
GetBlock(c) ==
  IF ~blocks[c].present THEN [err |-> "not found", data |-> NilBytes]
  ELSE IF blocks[c].inline_data # NilBytes
    THEN [err |-> "", data |-> blocks[c].inline_data]
  ELSE IF blocks[c].s3_key # NoKey /\ s3[blocks[c].s3_key] # NilBytes
    THEN [err |-> "", data |-> s3[blocks[c].s3_key]]
  ELSE [err |-> "s3 get failed", data |-> NilBytes]

\* BlockExists lines 156-160.
BlockExistsQ(c) == blocks[c].present

Init ==
  /\ blocks = [c \in Cids |-> NoBlock]
  /\ manifests = [m \in MIds |-> NoManifest]
  /\ block_refs = {}
  /\ s3 = [c \in Cids |-> NilBytes]
  /\ writeMu = Free
  /\ pc = [p \in Procs |-> "idle"]
  /\ arg = [p \in Procs |-> ZeroArg]
  /\ res = [p \in Procs |-> "none"]
  /\ known = {}
  /\ tree = <<>> /\ srv = <<>> /\ run = <<>> /\ wk = <<>> /\ out = <<>>
  /\ api = <<>> /\ limiter = <<>> /\ ipreq = <<>> /\ folder = <<>> /\ task = <<>>
  /\ pool = <<>> /\ rest = <<>> /\ arch = <<>> /\ scan = <<>>

\* --------------------------------------------------------------- SaveBlock
\* Lines 105-115: route by length; an external block is Put to the object
\* store under key = cid before the gate is taken.
SaveBlock_Put(p, c, d, putOk) ==
  /\ pc[p] = "idle"
  /\ IF IsInline(d)
       THEN /\ putOk
            /\ s3' = s3
            /\ arg' = [arg EXCEPT ![p] = [ZeroArg EXCEPT !.cid = c, !.data = d,
                                            !.inlineData = d, !.s3Key = NoKey]]
            /\ pc' = [pc EXCEPT ![p] = "sb_lock"]
            /\ res' = res
       ELSE IF putOk
         THEN /\ s3' = [s3 EXCEPT ![c] = d]
              /\ arg' = [arg EXCEPT ![p] = [ZeroArg EXCEPT !.cid = c, !.data = d,
                                              !.inlineData = NilBytes, !.s3Key = c]]
              /\ pc' = [pc EXCEPT ![p] = "sb_lock"]
              /\ res' = res
         ELSE UNCHANGED <<s3, arg, pc, res>>
  /\ UNCHANGED <<blocks, manifests, block_refs, writeMu, known>>
  /\ UNCHANGED clientVars
  /\ UNCHANGED serverVars

\* Line 117: s.writeMu.Lock().
SaveBlock_Lock(p) ==
  /\ pc[p] = "sb_lock"
  /\ CanLock
  /\ writeMu' = p
  /\ pc' = [pc EXCEPT ![p] = "sb_insert"]
  /\ UNCHANGED <<blocks, manifests, block_refs, s3, arg, res, known>>
  /\ UNCHANGED clientVars
  /\ UNCHANGED serverVars

\* Lines 120-125: INSERT OR IGNORE INTO blocks.
SaveBlock_Insert(p, dbOk) ==
  /\ pc[p] = "sb_insert"
  /\ IF dbOk
       THEN /\ \E stored \in StoredBlob(arg[p].inlineData) :
                 blocks' = IF blocks[arg[p].cid].present THEN blocks
                           ELSE [blocks EXCEPT ![arg[p].cid] =
                                  [present |-> TRUE, size |-> arg[p].data.len,
                                   inline_data |-> stored, s3_key |-> arg[p].s3Key]]
            /\ res' = [res EXCEPT ![p] = "ok"]
       ELSE /\ blocks' = blocks
            /\ res' = [res EXCEPT ![p] = "err"]
  /\ arg' = [arg EXCEPT ![p] = [ZeroArg EXCEPT !.cid = arg[p].cid]]
  /\ pc' = [pc EXCEPT ![p] = "sb_unlock"]
  /\ UNCHANGED <<manifests, block_refs, s3, writeMu, known>>
  /\ UNCHANGED clientVars
  /\ UNCHANGED serverVars

\* The client's UploadBlock returned: creator.go lines 183-194 append the
\* CID to the entry's block list when the upload succeeded.
SaveBlock_Return(p) ==
  /\ pc[p] = "sb_unlock"
  /\ writeMu' = Free
  /\ known' = IF res[p] = "ok" THEN known \cup {arg[p].cid} ELSE known
  /\ pc' = [pc EXCEPT ![p] = "idle"]
  /\ arg' = [arg EXCEPT ![p] = ZeroArg]
  /\ res' = [res EXCEPT ![p] = "none"]
  /\ UNCHANGED <<blocks, manifests, block_refs, s3>>
  /\ UNCHANGED clientVars
  /\ UNCHANGED serverVars

\* ------------------------------------------------------------------ client
\* Creator.Create starts (creator.go lines 84-107): the entries of a new run
\* have empty block lists.
Create_Begin(p) ==
  /\ pc[p] = "idle"
  /\ known # {}
  /\ known' = {}
  /\ UNCHANGED <<blocks, manifests, block_refs, s3, writeMu, pc, arg, res>>
  /\ UNCHANGED clientVars
  /\ UNCHANGED serverVars

\* ------------------------------------------------------------- BlockExists
\* A dedup probe (creator.go lines 175-194): a CID reported present goes
\* into the entry's block list without an upload.  Reads take no gate.
BlockExists(p, c) ==
  /\ pc[p] = "idle"
  /\ BlockExistsQ(c)
  /\ c \notin known
  /\ known' = known \cup {c}
  /\ UNCHANGED <<blocks, manifests, block_refs, s3, writeMu, pc, arg, res>>
  /\ UNCHANGED clientVars
  /\ UNCHANGED serverVars

\* GetManifest / GetLatestManifest read by the client before Create
\* (creator.go lines 116-121): unchanged files inherit the prior block list.
InheritManifest(p, m) ==
  /\ pc[p] = "idle"
  /\ manifests[m].present
  /\ ~ (manifests[m].blocks \subseteq known)
  /\ known' = known \cup manifests[m].blocks
  /\ UNCHANGED <<blocks, manifests, block_refs, s3, writeMu, pc, arg, res>>
  /\ UNCHANGED clientVars
  /\ UNCHANGED serverVars

\* ------------------------------------------------------------ SaveManifest
\* Lines 164-165: take the gate.  The manifest's block lists hold CIDs the
\* client was told are present.
SaveManifest_Lock(p, m, t, bs) ==
  /\ pc[p] = "idle"
  /\ bs \subseteq known
  /\ CanLock
  /\ writeMu' = p
  /\ arg' = [arg EXCEPT ![p] = [ZeroArg EXCEPT !.mid = m, !.created_at = Unix(t), !.mblocks = bs]]
  /\ pc' = [pc EXCEPT ![p] = "sm_tx"]
  /\ UNCHANGED <<blocks, manifests, block_refs, s3, res, known>>
  /\ UNCHANGED clientVars
  /\ UNCHANGED serverVars

\* Lines 179-185 with the schema's `id TEXT PRIMARY KEY`: a plain INSERT
\* goes through only when no row has the id.
ManifestInsertOkReplace(m) == TRUE
ManifestInsertOk(m) == ~manifests[m].present

\* Lines 167-200: one transaction; INSERT INTO manifests fails with a
\* constraint error on an id that is already stored, and any failure rolls
\* the whole transaction back.
SaveManifest_Tx(p, dbOk) ==
  /\ pc[p] = "sm_tx"
  /\ IF dbOk /\ ManifestInsertOk(arg[p].mid)
       THEN /\ manifests' = [manifests EXCEPT ![arg[p].mid] =
                              [present |-> TRUE, created_at |-> arg[p].created_at,
                               blocks |-> arg[p].mblocks]]
            /\ block_refs' = block_refs \cup {<<arg[p].mid, c>> : c \in arg[p].mblocks}
            /\ res' = [res EXCEPT ![p] = "ok"]
       ELSE /\ UNCHANGED <<manifests, block_refs>>
            /\ res' = [res EXCEPT ![p] = IF dbOk THEN "constraint" ELSE "err"]
  /\ arg' = [arg EXCEPT ![p] = ZeroArg]
  /\ pc' = [pc EXCEPT ![p] = "sm_unlock"]
  /\ UNCHANGED <<blocks, s3, writeMu, known>>
  /\ UNCHANGED clientVars
  /\ UNCHANGED serverVars

\* ---------------------------------------------------------- DeleteManifest
\* Lines 260-261.
DeleteManifest_Lock(p, m) ==
  /\ pc[p] = "idle"
  /\ CanLock
  /\ writeMu' = p
  /\ arg' = [arg EXCEPT ![p] = [ZeroArg EXCEPT !.mid = m]]
  /\ pc' = [pc EXCEPT ![p] = "dm_exec"]
  /\ UNCHANGED <<blocks, manifests, block_refs, s3, res, known>>
  /\ UNCHANGED clientVars
  /\ UNCHANGED serverVars

\* Lines 263-264: DELETE FROM manifests WHERE id = ?; nothing else.
DeleteManifest_Exec(p, dbOk) ==
  /\ pc[p] = "dm_exec"
  /\ IF dbOk
       THEN /\ manifests' = [manifests EXCEPT ![arg[p].mid] = NoManifest]
            /\ block_refs' = CascadeRefs(block_refs, {arg[p].mid})
            /\ res' = [res EXCEPT ![p] = "ok"]
       ELSE /\ UNCHANGED <<manifests, block_refs>>
            /\ res' = [res EXCEPT ![p] = "err"]
  /\ arg' = [arg EXCEPT ![p] = ZeroArg]
  /\ pc' = [pc EXCEPT ![p] = "dm_unlock"]
  /\ UNCHANGED <<blocks, s3, writeMu, known>>
  /\ UNCHANGED clientVars
  /\ UNCHANGED serverVars

\* defer s.writeMu.Unlock() of SaveManifest, DeleteManifest, PruneManifests.
Unlock(p) ==
  /\ pc[p] \in {"sm_unlock", "dm_unlock", "pr_unlock"}
  /\ writeMu' = Free
  /\ pc' = [pc EXCEPT ![p] = "idle"]
  /\ arg' = [arg EXCEPT ![p] = ZeroArg]
  /\ res' = [res EXCEPT ![p] = "none"]
  /\ UNCHANGED <<blocks, manifests, block_refs, s3, known>>
  /\ UNCHANGED clientVars
  /\ UNCHANGED serverVars

\* ---------------------------------------------------------- PruneManifests
\* Lines 269-270, called by Server.prune with cutoff = now - retention.
PruneManifests_Lock(cutoff) ==
  /\ pc[Pruner] = "idle"
  /\ CanLock
  /\ writeMu' = Pruner
  /\ arg' = [arg EXCEPT ![Pruner] = [ZeroArg EXCEPT !.cutoffUnix = Unix(cutoff)]]
  /\ pc' = [pc EXCEPT ![Pruner] = "pr_delete"]
  /\ UNCHANGED <<blocks, manifests, block_refs, s3, res, known>>
  /\ UNCHANGED clientVars
  /\ UNCHANGED serverVars

\* Lines 273-278: DELETE FROM manifests WHERE created_at < cutoff.Unix().
PruneManifests_Delete(dbOk) ==
  /\ pc[Pruner] = "pr_delete"
  /\ IF dbOk
       THEN LET old == {m \in MIds : manifests[m].present
                                     /\ manifests[m].created_at < arg[Pruner].cutoffUnix}
            IN /\ manifests' = [m \in MIds |-> IF m \in old THEN NoManifest ELSE manifests[m]]
               /\ block_refs' = CascadeRefs(block_refs, old)
               /\ pc' = [pc EXCEPT ![Pruner] = "pr_query"]
               /\ res' = res
       ELSE /\ UNCHANGED <<manifests, block_refs>>
            /\ pc' = [pc EXCEPT ![Pruner] = "pr_unlock"]
            /\ res' = [res EXCEPT ![Pruner] = "err"]
  /\ UNCHANGED <<blocks, s3, writeMu, arg, known>>
  /\ UNCHANGED clientVars
  /\ UNCHANGED serverVars

\* Lines 287-310: collect the unreferenced CIDs and their object keys.
Prune_Query(dbOk) ==
  /\ pc[Pruner] = "pr_query"
  /\ IF dbOk
       THEN /\ arg' = [arg EXCEPT ![Pruner].toDelete = OrphanedBlocks,
                                  ![Pruner].s3Keys =
                                     {blocks[c].s3_key : c \in
                                        {x \in OrphanedBlocks : blocks[x].s3_key # NoKey}}]
            /\ pc' = [pc EXCEPT ![Pruner] = "pr_gc"]
            /\ res' = res
       ELSE /\ arg' = arg
            /\ pc' = [pc EXCEPT ![Pruner] = "pr_unlock"]
            /\ res' = [res EXCEPT ![Pruner] = "err"]
  /\ UNCHANGED <<blocks, manifests, block_refs, s3, writeMu, known>>
  /\ UNCHANGED clientVars
  /\ UNCHANGED serverVars

\* The object delete with its error returned instead of logged.
Prune_S3DeleteAborts(key, s3Ok) ==
  /\ pc[Pruner] = "pr_gc"
  /\ key \in arg[Pruner].s3Keys
  /\ IF s3Ok
       THEN /\ s3' = [s3 EXCEPT ![key] = NilBytes]
            /\ arg' = [arg EXCEPT ![Pruner].s3Keys = @ \ {key}]
            /\ UNCHANGED <<pc, res>>
       ELSE /\ s3' = s3
            /\ arg' = [arg EXCEPT ![Pruner] =
                         [ZeroArg EXCEPT !.cutoffUnix = arg[Pruner].cutoffUnix]]
            /\ pc' = [pc EXCEPT ![Pruner] = "pr_unlock"]
            /\ res' = [res EXCEPT ![Pruner] = "err"]
  /\ UNCHANGED <<blocks, manifests, block_refs, writeMu, known>>
  /\ UNCHANGED clientVars
  /\ UNCHANGED serverVars

\* Lines 313-317: best-effort object delete; a failure is only logged.
Prune_S3Delete(key, s3Ok) ==
  /\ pc[Pruner] = "pr_gc"
  /\ key \in arg[Pruner].s3Keys
  /\ s3' = IF s3Ok THEN [s3 EXCEPT ![key] = NilBytes] ELSE s3
  /\ arg' = [arg EXCEPT ![Pruner].s3Keys = @ \ {key}]
  /\ UNCHANGED <<blocks, manifests, block_refs, writeMu, pc, res, known>>
  /\ UNCHANGED clientVars
  /\ UNCHANGED serverVars

\* Lines 320-324: DELETE FROM blocks WHERE cid = ?; an error returns.
Prune_RowDelete(c, dbOk) ==
  /\ pc[Pruner] = "pr_gc"
  /\ arg[Pruner].s3Keys = {}
  /\ c \in arg[Pruner].toDelete \ arg[Pruner].rowsDone
  /\ IF dbOk
       THEN /\ blocks' = [blocks EXCEPT ![c] = NoBlock]
            /\ arg' = [arg EXCEPT ![Pruner].rowsDone = @ \cup {c}]
            /\ UNCHANGED <<pc, res>>
       ELSE /\ blocks' = blocks
            /\ arg' = [arg EXCEPT ![Pruner] =
                         [ZeroArg EXCEPT !.cutoffUnix = arg[Pruner].cutoffUnix]]
            /\ pc' = [pc EXCEPT ![Pruner] = "pr_unlock"]
            /\ res' = [res EXCEPT ![Pruner] = "err"]
  /\ UNCHANGED <<manifests, block_refs, s3, writeMu, known>>
  /\ UNCHANGED clientVars
  /\ UNCHANGED serverVars

\* Line 330: return nil.
Prune_Done ==
  /\ pc[Pruner] = "pr_gc"
  /\ arg[Pruner].s3Keys = {}
  /\ arg[Pruner].toDelete = arg[Pruner].rowsDone
  /\ pc' = [pc EXCEPT ![Pruner] = "pr_unlock"]
  /\ res' = [res EXCEPT ![Pruner] = "ok"]
  /\ arg' = [arg EXCEPT ![Pruner] =
               [ZeroArg EXCEPT !.cutoffUnix = arg[Pruner].cutoffUnix]]
  /\ UNCHANGED <<blocks, manifests, block_refs, s3, writeMu, known>>
  /\ UNCHANGED clientVars
  /\ UNCHANGED serverVars

Next ==
  \/ \E p \in Workers, c \in Cids, d \in RoutingData, ok \in BOOLEAN :
        SaveBlock_Put(p, c, d, ok)
  \/ \E p \in Workers : SaveBlock_Lock(p)
  \/ \E p \in Workers, ok \in BOOLEAN : SaveBlock_Insert(p, ok)
  \/ \E p \in Workers : SaveBlock_Return(p)
  \/ \E p \in Workers : Create_Begin(p)
  \/ \E p \in Workers, c \in Cids : BlockExists(p, c)
  \/ \E p \in Workers, m \in MIds : InheritManifest(p, m)
  \/ \E p \in Workers, m \in MIds, t \in 0..MaxTime, bs \in SUBSET Cids :
        SaveManifest_Lock(p, m, t, bs)
  \/ \E p \in Workers, ok \in BOOLEAN : SaveManifest_Tx(p, ok)
  \/ \E p \in Workers, m \in MIds : DeleteManifest_Lock(p, m)
  \/ \E p \in Workers, ok \in BOOLEAN : DeleteManifest_Exec(p, ok)
  \/ \E p \in Procs : Unlock(p)
  \/ \E t \in 0..(MaxTime + TicksPerSecond) : PruneManifests_Lock(t)
  \/ \E ok \in BOOLEAN : PruneManifests_Delete(ok)
  \/ \E ok \in BOOLEAN : Prune_Query(ok)
  \/ \E k \in Cids, ok \in BOOLEAN : Prune_S3Delete(k, ok)
  \/ \E c \in Cids, ok \in BOOLEAN : Prune_RowDelete(c, ok)
  \/ Prune_Done

Spec == Init /\ [][Next]_vars

\* The block table on its own: uploads of every body in DataSet, probes and
\* the retention sweep, with no manifest written.
NextBlocks ==
  \/ \E p \in Workers, c \in Cids, d \in DataSet, ok \in BOOLEAN :
        SaveBlock_Put(p, c, d, ok)
  \/ \E p \in Workers : SaveBlock_Lock(p)
  \/ \E p \in Workers, ok \in BOOLEAN : SaveBlock_Insert(p, ok)
  \/ \E p \in Workers : SaveBlock_Return(p)
  \/ \E p \in Workers : Create_Begin(p)
  \/ \E p \in Workers, c \in Cids : BlockExists(p, c)
  \/ Unlock(Pruner)
  \/ \E t \in 0..(MaxTime + TicksPerSecond) : PruneManifests_Lock(t)
  \/ \E ok \in BOOLEAN : PruneManifests_Delete(ok)
  \/ \E ok \in BOOLEAN : Prune_Query(ok)
  \/ \E k \in Cids, ok \in BOOLEAN : Prune_S3Delete(k, ok)
  \/ \E c \in Cids, ok \in BOOLEAN : Prune_RowDelete(c, ok)
  \/ Prune_Done

SpecBlocks == Init /\ [][NextBlocks]_vars

\* ------------------------------------------------------------- definitions
\* The CID has a block_refs row.
HasRef(c) == \E r \in block_refs : r[2] = c

\* Positions between writeMu.Lock() and the deferred writeMu.Unlock().
GatePcs ==
  {"sb_insert", "sb_unlock", "sm_tx", "sm_unlock", "dm_exec", "dm_unlock",
   "pr_delete", "pr_query", "pr_gc", "pr_unlock"}

PruneReturnedOk == pc[Pruner] = "pr_unlock" /\ res[Pruner] = "ok"

\* -------------------------------------------------------------------- C1
\* C1: in every reachable state, every CID listed by a file entry of a
\* surviving manifest has a row in the blocks table.
C1_ManifestBlocksHaveRows ==
  \A m \in MIds : manifests[m].present =>
    \A c \in manifests[m].blocks : blocks[c].present

\* -------------------------------------------------------------------- C2
\* C2: no step removes a block row, or the object stored under a CID, while
\* a manifest that survives the step lists that CID.
C2_PruneKeepsReferencedBlocks ==
  [][\A c \in Cids :
       ((blocks[c].present /\ ~blocks'[c].present)
          \/ (s3[c] # NilBytes /\ s3'[c] = NilBytes))
       => ~ \E m \in MIds : manifests'[m].present /\ c \in manifests'[m].blocks]_vars

\* Two manifests listed the same block, a prune removed one of them and has
\* finished its collection, and the block row is still there.
C2_Witness ==
  /\ PruneReturnedOk
  /\ arg[Pruner].cutoffUnix > 0
  /\ \E c \in Cids, m1 \in MIds, m2 \in MIds :
       /\ m1 # m2
       /\ manifests[m1].present /\ c \in manifests[m1].blocks
       /\ ~manifests[m2].present /\ <<m2, c>> \in block_refs
       /\ blocks[c].present

C4_RefsNameStoredManifests ==
  \A r \in block_refs : manifests[r[1]].present

\* -------------------------------------------------------------------- C5
\* C5: when PruneManifests has returned nil with a cutoff whose second is
\* later than the created_at of every stored manifest, no manifest row, no
\* block_refs row and no block row is left.
C5_PruneAllRemovesEverything ==
  (PruneReturnedOk
     /\ \A m \in MIds : manifests[m].present =>
          manifests[m].created_at < arg[Pruner].cutoffUnix)
  => /\ \A m \in MIds : ~manifests[m].present
     /\ block_refs = {}
     /\ \A c \in Cids : ~blocks[c].present

\* -------------------------------------------------------------------- C6
\* C6: when DeleteManifest(id) succeeds, no block row is left for a CID that
\* the deleted manifest listed and no surviving manifest lists.
C6_DeleteRunsOrphanGC ==
  [][\A p \in Workers :
       (pc[p] = "dm_exec" /\ res'[p] = "ok")
       => \A c \in manifests[arg[p].mid].blocks :
            (~ \E m \in MIds : manifests'[m].present /\ c \in manifests'[m].blocks)
            => ~blocks'[c].present]_vars

\* -------------------------------------------------------------------- C7
\* C7: at most one goroutine is between Lock and Unlock of the write gate,
\* and while the prune holds CIDs it found unreferenced and has not yet
\* deleted, none of them has a block_refs row.
C7_GateSerializesPrune ==
  /\ Cardinality({p \in Procs : pc[p] \in GatePcs}) <= 1
  /\ pc[Pruner] = "pr_gc" =>
       \A c \in arg[Pruner].toDelete \ arg[Pruner].rowsDone : ~HasRef(c)

\* The prune holds an unreferenced CID that a client has in a block list,
\* its row is not yet deleted, and an upload waits at the gate.
C7_Witness ==
  /\ pc[Pruner] = "pr_gc"
  /\ \E c \in arg[Pruner].toDelete \ arg[Pruner].rowsDone : c \in known
  /\ \E p \in Workers : pc[p] = "sb_lock"

\* -------------------------------------------------------------------- C8
\* C8: every block row has exactly one of inline bytes and object key.
C8_ExactlyOneLocation ==
  \A c \in Cids : blocks[c].present =>
    ((blocks[c].inline_data # NilBytes) # (blocks[c].s3_key # NoKey))

\* -------------------------------------------------------------------- C9
\* C9: SaveBlock keeps the data inline, with no object-store write, exactly
\* when its length is below 262144; otherwise it puts the data under key =
\* CID; a row has an object key exactly when its size is 262144 or more.
C9_InlineIffBelowThreshold ==
  [][/\ \A p \in Workers :
          (pc[p] = "idle" /\ pc'[p] = "sb_lock")
          => IF arg'[p].data.len < 262144
               THEN /\ arg'[p].inlineData = arg'[p].data
                    /\ arg'[p].s3Key = NoKey
                    /\ s3' = s3
               ELSE /\ arg'[p].inlineData = NilBytes
                    /\ arg'[p].s3Key = arg'[p].cid
                    /\ s3'[arg'[p].cid] = arg'[p].data
     /\ \A c \in Cids : blocks'[c].present =>
          IF blocks'[c].size < 262144
            THEN blocks'[c].s3_key = NoKey
            ELSE blocks'[c].s3_key = c /\ blocks'[c].inline_data = NilBytes]_vars

\* A block of exactly 262144 bytes is stored external with its object, and
\* an upload of 262143 bytes is on its way inline.
C9_Witness ==
  \E c \in Cids, p \in Workers :
    /\ blocks[c].present /\ blocks[c].size = 262144
    /\ blocks[c].s3_key = c /\ s3[c].len = 262144
    /\ pc[p] = "sb_lock" /\ arg[p].data.len = 262143 /\ arg[p].s3Key = NoKey

\* ------------------------------------------------------------------- C10
\* C10: a SaveBlock for a CID that already has a row leaves the row as it
\* is and leaves what GetBlock returns for the CID as it is.
C10_SecondSaveBlockInvisible ==
  [][\A p \in Workers, c \in Cids :
       (pc[p] \in {"idle", "sb_insert"} /\ pc'[p] \in {"sb_lock", "sb_unlock"}
          /\ arg'[p].cid = c /\ blocks[c].present)
       => /\ blocks'[c] = blocks[c]
          /\ GetBlock(c)' = GetBlock(c)]_vars

\* ------------------------------------------------------------------- C20
\* C20: a SaveManifest that fails adds no manifest row and no block_refs
\* row; one for an id that is already stored fails; one that succeeds adds
\* the row and all its block_refs rows; and a stored manifest and the
\* block_refs rows of its id change only in a step of DeleteManifest or
\* PruneManifests.
C20_SaveManifestAllOrNothing ==
  [][/\ \A p \in Workers :
          (pc[p] = "sm_tx" /\ pc'[p] = "sm_unlock") =>
            /\ res'[p] # "ok" => (manifests' = manifests /\ block_refs' = block_refs)
            /\ manifests[arg[p].mid].present => res'[p] = "constraint" \/ res'[p] = "err"
            /\ res'[p] = "ok" =>
                 /\ manifests'[arg[p].mid].present
                 /\ manifests'[arg[p].mid].blocks = arg[p].mblocks
                 /\ block_refs' = block_refs \cup {<<arg[p].mid, c>> : c \in arg[p].mblocks}
     /\ \A m \in MIds :
          (/\ manifests[m].present
           /\ \/ manifests'[m] # manifests[m]
              \/ {r \in block_refs' : r[1] = m} # {r \in block_refs : r[1] = m})
            => \/ \E p \in Workers : pc[p] = "dm_exec" /\ arg[p].mid = m
               \/ pc[Pruner] = "pr_delete"
    ]_vars

\* A SaveManifest for a stored id, with another block list, has returned
\* the constraint error.
C20_Witness ==
  \E p \in Workers :
    /\ pc[p] = "sm_unlock" /\ res[p] = "constraint"
    /\ \E m \in MIds : manifests[m].present /\ manifests[m].blocks # {}

\* ======================================================================
\* The backup client: runCreate, Creator.Create with its per-file
\* goroutines, and Restorer.Restore, against the server's HTTP surface.
\* ======================================================================
NumPaths == 2         \* scanned paths 1..NumPaths, in walk order
Concurrency == 16     \* --concurrency default of backup create

Paths == 1..NumPaths

\* Uncompressed chunk windows a file is made of, and the ones LZ4 shrinks.
Windows == {"a", "b", "c"}
Compressible == {"a"}
\* File contents in play: the empty file and a file of two windows.
FileContents == {<<>>, <<"a", "b">>}
\* What a rewrite in place leaves behind.
RewrittenContent == <<"c">>

\* cid.Generate: SHA-256 of the uncompressed bytes inside a CIDv1.
CID(w) == <<"cidv1-raw-sha256", w>>
ChunkCids == {CID(w) : w \in Windows}

\* Bytes on the wire and at rest.
Raw(w) == [enc |-> "raw", of |-> w]
\* Chunker: compress the window, keep the raw bytes when LZ4 does not shrink.
Compress(w) == IF w \in Compressible THEN [enc |-> "lz4", of |-> w] ELSE Raw(w)
NoData == [enc |-> "none", of |-> "none"]
\* Decompress: the uncompressed bytes of a stored block.
Decompress(stored) == Raw(stored.of)
\* Chunker.ChunkFile: one (cid, compressed bytes) item per window, in read
\* order; a file of no bytes yields no item.
ChunkFile(content) ==
  [i \in 1..Len(content) |-> [cid |-> CID(content[i]), data |-> Compress(content[i])]]

\* A Go []string: nil, or a list.
NilSlice == [nil |-> TRUE, list |-> <<>>]
Slice(l) == [nil |-> FALSE, list |-> l]
AppendSlice(b, c) == [nil |-> FALSE, list |-> Append(b.list, c)]

\* encoding/json with `blocks,omitempty`: an empty list is left out and
\* decodes as nil.
JsonBlocks(b) == IF Len(b.list) = 0 THEN NilSlice ELSE b
JsonManifest(m) ==
  [m EXCEPT !.entries = [i \in 1..Len(m.entries) |->
                           [m.entries[i] EXCEPT !.blocks = JsonBlocks(@)]]]

\* info.Size() of a regular file, in windows.
SizeOf(content) == Len(content)

\* Scanner.Scan: one Entry per path, files without blocks yet.
ScanEntry(p) ==
  [path |-> p, type |-> tree[p].type, mtime |-> tree[p].mtime,
   size |-> IF tree[p].type = "file" THEN SizeOf(tree[p].content) ELSE 0,
   blocks |-> NilSlice]

NoErr == [kind |-> "none", path |-> 0]
Err(k, p) == [kind |-> k, path |-> p]

NilManifest == [id |-> 0, entries |-> <<>>]
ZeroProgress == [SkippedFiles |-> 0, ErrorFiles |-> 0, BlocksUploaded |-> 0]
NoWorker ==
  [st |-> "none", idx |-> 0, blocks |-> NilSlice, via |-> <<>>,
   fileError |-> FALSE, hit |-> NoErr, tries |-> 0]

\* Manifest.BuildEntryIndex: path -> the last entry with that path.
HasPrevEntry(prev, p) == \E i \in 1..Len(prev.entries) : prev.entries[i].path = p
PrevEntry(prev, p) ==
  prev.entries[CHOOSE i \in 1..Len(prev.entries) :
                 /\ prev.entries[i].path = p
                 /\ \A j \in (i+1)..Len(prev.entries) : prev.entries[j].path # p]

\* creator.go line 118: unchanged since the prior backup.
UnchangedMtimeOnly(prevEntry, entry) == prevEntry.mtime = entry.mtime
Unchanged(prevEntry, entry) ==
  prevEntry.mtime = entry.mtime /\ prevEntry.size = entry.size

\* errOnce.Do(func() { firstErr = e }).
RecordLast(firstErr, e) == e
Record(firstErr, e) == IF firstErr = NoErr THEN e ELSE firstErr

\* creator.go line 228: the file entries of the final loop.
InFinalLoopAnyFile(entry) == entry.type = "file"
InFinalLoop(entry) == entry.type = "file" /\ ~entry.blocks.nil

\* runCreate line 210: the manifest is uploaded only when Create returned
\* no error.
MayUploadAlways(err) == TRUE
MayUpload(err) == err = NoErr

\* decompressingFetcher.DownloadBlock: hands on what the server sent.
DecompressingFetch(stored) == stored

\* A directory, a symlink, or a regular file with its content and whether
\* opening it is permitted.
TreeKinds ==
  { [type |-> t, mtime |-> 0, content |-> <<>>, readable |-> TRUE] :
      t \in {"dir", "symlink"} }
  \cup { [type |-> "file", mtime |-> 0, content |-> c, readable |-> TRUE] :
           c \in FileContents }
  \cup { [type |-> "file", mtime |-> 0, content |-> <<"a", "b">>, readable |-> FALSE] }

NewRun(round) ==
  [phase |-> "start", round |-> round, prev |-> NilManifest, fetched |-> FALSE,
   entries |-> <<>>, manifest |-> NilManifest, firstErr |-> NoErr, err |-> NoErr,
   progress |-> ZeroProgress, changed |-> FALSE]

NoFile == [type |-> "absent", bytes |-> <<>>]
RestoreIdle == [phase |-> "idle", next |-> 0, files |-> [p \in Paths |-> NoFile]]

InitBackup ==
  /\ blocks = [c \in Cids |-> NoBlock]
  /\ manifests = [m \in MIds |-> NoManifest]
  /\ block_refs = {}
  /\ s3 = [c \in Cids |-> NilBytes]
  /\ writeMu = Free
  /\ pc = [p \in Procs |-> "idle"]
  /\ arg = [p \in Procs |-> ZeroArg]
  /\ res = [p \in Procs |-> "none"]
  /\ known = {}
  /\ tree \in [Paths -> TreeKinds]
  /\ srv = [blocks |-> [c \in ChunkCids |-> NoData], latest |-> NilManifest]
  /\ run = NewRun("first")
  /\ wk = [p \in Paths |-> NoWorker]
  /\ out = RestoreIdle
  /\ api = <<>> /\ limiter = <<>> /\ ipreq = <<>> /\ folder = <<>> /\ task = <<>>
  /\ pool = <<>> /\ rest = <<>> /\ arch = <<>> /\ scan = <<>>

\* generateID: the second of the clock and 32 random bits, taken as fresh.
generateID(round) == IF round = "first" THEN 1 ELSE 2

\* ---------------------------------------------------------------- runCreate
\* part_006 lines 194-204: the latest manifest with the same tags; a failed
\* fetch is a warning and the backup goes on without a prior manifest.
RunCreate_FetchPrev(ok) ==
  /\ run.phase = "start"
  /\ run' = [run EXCEPT !.phase = "create",
                        !.prev = IF ok THEN srv.latest ELSE NilManifest,
                        !.fetched = ok /\ srv.latest # NilManifest]
  /\ UNCHANGED <<tree, srv, wk, out>>
  /\ UNCHANGED storageVars
  /\ UNCHANGED serverVars

\* creator.go lines 106-128, for the entry of path p.
Skipped(prev, p) ==
  /\ tree[p].type = "file"
  /\ prev # NilManifest
  /\ HasPrevEntry(prev, p)
  /\ Unchanged(PrevEntry(prev, p), ScanEntry(p))

FirstLoopEntry(prev, p) ==
  IF Skipped(prev, p)
    THEN [ScanEntry(p) EXCEPT !.blocks = PrevEntry(prev, p).blocks]
    ELSE ScanEntry(p)

\* creator.go lines 53-128: index the prior manifest, scan, and run the
\* loop over the entries: directories and symlinks go into the manifest,
\* unchanged files take the prior block list and go into the manifest, and
\* every other file gets a goroutine.
Create_Dispatch ==
  /\ run.phase = "create"
  /\ LET ents == [p \in Paths |-> FirstLoopEntry(run.prev, p)]
         added == SelectSeq([i \in 1..NumPaths |-> ents[i]],
                            LAMBDA e : e.type # "file" \/ Skipped(run.prev, e.path))
         nskip == Cardinality({p \in Paths : Skipped(run.prev, p)})
     IN /\ run' = [run EXCEPT !.phase = "workers",
                              !.entries = ents,
                              !.manifest = [id |-> generateID(run.round), entries |-> added],
                              !.progress.SkippedFiles = nskip]
        /\ wk' = [p \in Paths |->
                    IF tree[p].type = "file" /\ ~Skipped(run.prev, p)
                      THEN [NoWorker EXCEPT !.st = "ready"] ELSE NoWorker]
  /\ UNCHANGED <<tree, srv, out>>
  /\ UNCHANGED storageVars
  /\ UNCHANGED serverVars

\* ------------------------------------------------- the goroutine of a file
Running == {p \in Paths : wk[p].st \in {"run", "upload"}}

\* creator.go lines 135-148: take a slot of sem; return at once when an
\* error is seen recorded. The read of firstErr is not synchronised with
\* the write inside errOnce.Do, so a recorded error may go unseen.
Worker_Start(p, seen) ==
  /\ run.phase = "workers"
  /\ wk[p].st = "ready"
  /\ Cardinality(Running) < Concurrency
  /\ seen => run.firstErr # NoErr
  /\ wk' = [wk EXCEPT ![p].st = IF seen THEN "done" ELSE "run"]
  /\ UNCHANGED <<tree, srv, run, out>>
  /\ UNCHANGED storageVars
  /\ UNCHANGED serverVars

\* creator.go lines 160-206, one item of the chunk sequence: a permission
\* error skips the file, any other error aborts, a chunk is probed, and the
\* end of the sequence stores the block list in the entry.
Worker_Next(p, readOk, probeOk) ==
  /\ run.phase = "workers"
  /\ wk[p].st = "run"
  /\ IF ~tree[p].readable
       THEN \* os.IsPermission(chunk.Error): lines 163-169, 198-204
            /\ wk' = [wk EXCEPT ![p].st = "done", ![p].fileError = TRUE]
            /\ run' = [run EXCEPT !.progress.ErrorFiles = @ + 1,
                                  !.entries[p].blocks = NilSlice]
            /\ srv' = srv
       ELSE IF ~readOk
         THEN \* lines 170-171
              /\ wk' = [wk EXCEPT ![p].st = "done", ![p].hit = Err("chunk", p)]
              /\ run' = [run EXCEPT !.firstErr = Record(@, Err("chunk", p))]
              /\ srv' = srv
         ELSE IF wk[p].idx = Len(ChunkFile(tree[p].content))
           THEN \* line 206
                /\ readOk /\ probeOk
                /\ wk' = [wk EXCEPT ![p].st = "done"]
                /\ run' = [run EXCEPT !.entries[p].blocks = wk[p].blocks]
                /\ srv' = srv
           ELSE LET cid == ChunkFile(tree[p].content)[wk[p].idx + 1].cid
                IN IF ~probeOk
                     THEN \* lines 175-179
                          /\ wk' = [wk EXCEPT ![p].st = "done", ![p].tries = 1,
                                              ![p].hit = Err("probe", p)]
                          /\ run' = [run EXCEPT !.firstErr = Record(@, Err("probe", p))]
                          /\ srv' = srv
                     ELSE IF srv.blocks[cid] # NoData
                       THEN \* lines 189-194
                            /\ wk' = [wk EXCEPT ![p].idx = @ + 1, ![p].tries = 1,
                                                ![p].blocks = AppendSlice(@, cid),
                                                ![p].via = Append(@, "present")]
                            /\ UNCHANGED <<run, srv>>
                       ELSE /\ wk' = [wk EXCEPT ![p].st = "upload", ![p].tries = 1]
                            /\ UNCHANGED <<run, srv>>
  /\ UNCHANGED <<tree, out>>
  /\ UNCHANGED storageVars
  /\ UNCHANGED serverVars

\* creator.go lines 181-194: upload the chunk the probe reported absent.
\* The server keeps the first bytes stored under a CID.
Worker_Upload(p, uploadOk) ==
  /\ run.phase = "workers"
  /\ wk[p].st = "upload"
  /\ LET chunk == ChunkFile(tree[p].content)[wk[p].idx + 1]
         cid == chunk.cid
     IN IF uploadOk
          THEN /\ srv' = [srv EXCEPT !.blocks[cid] =
                            IF @ = NoData THEN chunk.data ELSE @]
               /\ wk' = [wk EXCEPT ![p].st = "run", ![p].idx = @ + 1, ![p].tries = 1,
                                   ![p].blocks = AppendSlice(@, cid),
                                   ![p].via = Append(@, "uploaded")]
               /\ run' = [run EXCEPT !.progress.BlocksUploaded = @ + 1]
          ELSE /\ wk' = [wk EXCEPT ![p].st = "done", ![p].tries = 1,
                                   ![p].hit = Err("upload", p)]
               /\ run' = [run EXCEPT !.firstErr = Record(@, Err("upload", p))]
               /\ srv' = srv
  /\ UNCHANGED <<tree, out>>
  /\ UNCHANGED storageVars
  /\ UNCHANGED serverVars

\* creator.go lines 213-233: wg.Wait(); an error recorded by a goroutine is
\* returned without a manifest, else the final loop adds the file entries.
Create_Wait ==
  /\ run.phase = "workers"
  /\ \A p \in Paths : wk[p].st \in {"none", "done"}
  /\ IF run.firstErr # NoErr
       THEN run' = [run EXCEPT !.phase = "created", !.err = run.firstErr,
                               !.manifest = NilManifest]
       ELSE run' = [run EXCEPT !.phase = "created",
                      !.manifest.entries =
                         @ \o SelectSeq([i \in 1..NumPaths |-> run.entries[i]],
                                        InFinalLoop)]
  /\ UNCHANGED <<tree, srv, wk, out>>
  /\ UNCHANGED storageVars
  /\ UNCHANGED serverVars

\* part_006 lines 209-218: a failed Create ends the command; else the
\* manifest is marshalled and posted; the server stores it.
RunCreate_Upload(postOk) ==
  /\ run.phase = "created"
  /\ IF ~MayUpload(run.err)
       THEN /\ run' = [run EXCEPT !.phase = "failed"]
            /\ srv' = srv
       ELSE IF postOk
         THEN /\ srv' = [srv EXCEPT !.latest = JsonManifest(run.manifest)]
              /\ run' = [run EXCEPT !.phase = "uploaded"]
         ELSE /\ srv' = srv
              /\ run' = [run EXCEPT !.phase = "failed", !.err = Err("manifest", 0)]
  /\ UNCHANGED <<tree, wk, out>>
  /\ UNCHANGED storageVars
  /\ UNCHANGED serverVars

\* ------------------------------------------------- between two backup runs
\* The owner of the tree changes one file after the first backup: a new
\* modification time, or new content of another size under the old time.
Touch(p) ==
  /\ run.phase = "uploaded" /\ run.round = "first" /\ ~run.changed
  /\ out.phase = "idle"
  /\ tree[p].type = "file"
  /\ tree' = [tree EXCEPT ![p].mtime = 1]
  /\ run' = [run EXCEPT !.changed = TRUE]
  /\ UNCHANGED <<srv, wk, out>>
  /\ UNCHANGED storageVars
  /\ UNCHANGED serverVars

Rewrite(p) ==
  /\ run.phase = "uploaded" /\ run.round = "first" /\ ~run.changed
  /\ out.phase = "idle"
  /\ tree[p].type = "file" /\ tree[p].readable
  /\ tree' = [tree EXCEPT ![p].content = RewrittenContent]
  /\ run' = [run EXCEPT !.changed = TRUE]
  /\ UNCHANGED <<srv, wk, out>>
  /\ UNCHANGED storageVars
  /\ UNCHANGED serverVars

\* The command is run again with the same tags.
RunCreate_Again ==
  /\ run.phase = "uploaded" /\ run.round = "first"
  /\ out.phase = "idle"
  /\ run' = [NewRun("second") EXCEPT !.changed = run.changed]
  /\ wk' = [p \in Paths |-> NoWorker]
  /\ UNCHANGED <<tree, srv, out>>
  /\ UNCHANGED storageVars
  /\ UNCHANGED serverVars

\* ------------------------------------------------------------------ Restore
\* part_002 lines 32-46 after runRestore fetched the manifest: the first
\* pass creates the directories.
Restore_Begin ==
  /\ run.phase = "uploaded"
  /\ out.phase = "idle"
  /\ LET es == srv.latest.entries
     IN out' = [phase |-> "files", next |-> 1,
                files |-> [p \in Paths |->
                   IF \E i \in 1..Len(es) : es[i].path = p /\ es[i].type = "dir"
                     THEN [type |-> "dir", bytes |-> <<>>] ELSE NoFile]]
  /\ UNCHANGED <<tree, srv, run, wk>>
  /\ UNCHANGED storageVars
  /\ UNCHANGED serverVars

\* part_002 lines 49-63 and restoreFile, for the next entry: a file without
\* blocks is written empty; else every block is fetched into its slot and
\* the slots are written in order; a failed fetch or an existing path for
\* a symlink ends the restore.
Restore_Entry(fetchOk) ==
  /\ out.phase = "files"
  /\ out.next <= Len(srv.latest.entries)
  /\ LET e == srv.latest.entries[out.next]
         got == [i \in 1..Len(e.blocks.list) |->
                   DecompressingFetch(srv.blocks[e.blocks.list[i]])]
     IN IF e.type = "dir"
          THEN out' = [out EXCEPT !.next = @ + 1]
          ELSE IF e.type = "symlink"
            THEN IF out.files[e.path] = NoFile
                   THEN out' = [out EXCEPT !.next = @ + 1,
                                  !.files[e.path] = [type |-> "symlink", bytes |-> <<>>]]
                   ELSE out' = [out EXCEPT !.phase = "failed"]
            ELSE IF Len(e.blocks.list) = 0
              THEN out' = [out EXCEPT !.next = @ + 1,
                             !.files[e.path] = [type |-> "file", bytes |-> <<>>]]
              ELSE IF fetchOk /\ \A i \in 1..Len(got) : got[i] # NoData
                THEN out' = [out EXCEPT !.next = @ + 1,
                               !.files[e.path] = [type |-> "file", bytes |-> got]]
                ELSE out' = [out EXCEPT !.phase = "failed"]
  /\ UNCHANGED <<tree, srv, run, wk>>
  /\ UNCHANGED storageVars
  /\ UNCHANGED serverVars

\* part_002 lines 65-86: the last pass sets modes and times; return nil.
Restore_Done ==
  /\ out.phase = "files"
  /\ out.next > Len(srv.latest.entries)
  /\ out' = [out EXCEPT !.phase = "done"]
  /\ UNCHANGED <<tree, srv, run, wk>>
  /\ UNCHANGED storageVars
  /\ UNCHANGED serverVars

NextBackup ==
  \/ \E ok \in BOOLEAN : RunCreate_FetchPrev(ok)
  \/ Create_Dispatch
  \/ \E p \in Paths, seen \in BOOLEAN : Worker_Start(p, seen)
  \/ \E p \in Paths, readOk \in BOOLEAN, probeOk \in BOOLEAN : Worker_Next(p, readOk, probeOk)
  \/ \E p \in Paths, ok \in BOOLEAN : Worker_Upload(p, ok)
  \/ Create_Wait
  \/ \E ok \in BOOLEAN : RunCreate_Upload(ok)
  \/ \E p \in Paths : Touch(p)
  \/ \E p \in Paths : Rewrite(p)
  \/ RunCreate_Again
  \/ Restore_Begin
  \/ \E ok \in BOOLEAN : Restore_Entry(ok)
  \/ Restore_Done

SpecBackup == InitBackup /\ [][NextBackup]_vars

\* ------------------------------------------------------------------- C11
\* C11: the manifest is posted only after Create returned without error;
\* every block CID of the posted manifest was probed present or uploaded
\* by the goroutine of its file in this run, or stands in the entry of the
\* same path in the prior manifest; after a failed Create the manifest on
\* the server stays as it was.
C11_ManifestOnlyAfterCreateOk ==
  [][/\ srv'.latest # srv.latest
          => /\ run.phase = "created" /\ run.err = NoErr /\ run.firstErr = NoErr
             /\ srv'.latest = JsonManifest(run.manifest)
             /\ \A i \in 1..Len(run.manifest.entries) :
                  LET e == run.manifest.entries[i]
                  IN \A k \in 1..Len(e.blocks.list) :
                       \/ /\ k <= Len(wk[e.path].via)
                          /\ wk[e.path].via[k] \in {"present", "uploaded"}
                          /\ wk[e.path].blocks.list[k] = e.blocks.list[k]
                       \/ /\ HasPrevEntry(run.prev, e.path)
                          /\ PrevEntry(run.prev, e.path).blocks.list = e.blocks.list
     /\ (run.phase = "created" /\ run.err # NoErr) => srv'.latest = srv.latest
    ]_vars

\* A second backup is posted whose manifest holds an inherited block list
\* and a block that a probe found on the server.
C11_Witness ==
  /\ run.phase = "uploaded" /\ run.round = "second"
  /\ run.progress.SkippedFiles >= 1
  /\ \E p \in Paths : Len(wk[p].via) >= 1 /\ wk[p].via[1] = "present"
  /\ \E i \in 1..Len(srv.latest.entries) : Len(srv.latest.entries[i].blocks.list) >= 1

\* ------------------------------------------------------------------- C12
\* C12: in every manifest that Create returns no two entries have the same
\* path, whether the entries are directories, symlinks, chunked files or
\* skipped files.
C12_EntryPathsUnique ==
  (run.phase = "created" /\ run.err = NoErr)
    => \A i, j \in 1..Len(run.manifest.entries) :
         run.manifest.entries[i].path = run.manifest.entries[j].path => i = j

\* ------------------------------------------------------------------- C13
\* C13: in a run with a prior manifest, a file whose path has a prior entry
\* with the same modification time and the same size takes that entry's
\* block list, is counted in SkippedFiles and gets no goroutine (no chunk,
\* no probe, no upload); every other file gets a goroutine, which probes
\* each chunk and uploads it exactly when the probe finds it absent.
C13_SkipExactlyUnchanged ==
  [][/\ run'.phase \in {"workers", "created"}
          => /\ \A p \in Paths :
                  tree'[p].type = "file" =>
                    IF /\ HasPrevEntry(run'.prev, p)
                       /\ PrevEntry(run'.prev, p).mtime = tree'[p].mtime
                       /\ PrevEntry(run'.prev, p).size = Len(tree'[p].content)
                      THEN /\ run'.entries[p].blocks = PrevEntry(run'.prev, p).blocks
                           /\ wk'[p] = NoWorker
                      ELSE wk'[p].st # "none"
             /\ run'.progress.SkippedFiles =
                  Cardinality({p \in Paths :
                     /\ tree'[p].type = "file"
                     /\ HasPrevEntry(run'.prev, p)
                     /\ PrevEntry(run'.prev, p).mtime = tree'[p].mtime
                     /\ PrevEntry(run'.prev, p).size = Len(tree'[p].content)})
     /\ \A p \in Paths :
          /\ (wk[p].st = "run" /\ wk'[p].st = "upload")
               => srv.blocks[CID(tree[p].content[wk[p].idx + 1])] = NoData
          /\ Len(wk'[p].via) = Len(wk[p].via) + 1
               => LET c == CID(tree[p].content[wk[p].idx + 1])
                  IN IF wk[p].st = "run"
                       THEN /\ srv.blocks[c] # NoData /\ srv' = srv
                            /\ wk'[p].via[Len(wk'[p].via)] = "present"
                       ELSE /\ wk[p].st = "upload" /\ srv'.blocks[c] # NoData
                            /\ wk'[p].via[Len(wk'[p].via)] = "uploaded"
     /\ srv'.blocks # srv.blocks => \E p \in Paths : wk[p].st = "upload"
    ]_vars

\* The second run skipped one file and chunked and uploaded another one.
C13_Witness ==
  /\ run.phase = "created" /\ run.round = "second" /\ run.fetched
  /\ run.progress.SkippedFiles = 1
  /\ \E p \in Paths : wk[p].via = <<"uploaded">>

\* ------------------------------------------------------------------- C14
\* C14: a second run over the unchanged tree that fetched the first
\* manifest uploads no block, gets another manifest id, counts every
\* readable file in SkippedFiles, and gives every file path the block list
\* it has in the first manifest.
C14_UnchangedSecondBackup ==
  (/\ run.phase = "created" /\ run.round = "second"
   /\ run.fetched /\ ~run.changed /\ run.err = NoErr)
    => /\ run.progress.BlocksUploaded = 0
       /\ run.manifest.id # run.prev.id
       /\ run.progress.SkippedFiles =
            Cardinality({p \in Paths : tree[p].type = "file" /\ tree[p].readable})
       /\ \A i \in 1..Len(run.manifest.entries) :
            LET e == run.manifest.entries[i]
            IN e.type = "file"
                 => /\ HasPrevEntry(run.prev, e.path)
                    /\ PrevEntry(run.prev, e.path).blocks.list = e.blocks.list
       /\ \A j \in 1..Len(run.prev.entries) :
            \E i \in 1..Len(run.manifest.entries) :
               run.manifest.entries[i].path = run.prev.entries[j].path

\* ------------------------------------------------------------------- C15
\* C15: a readable empty file of the tree has, in the manifest Create
\* returns, a file entry with size 0 and no blocks.
C15_EmptyFileHasEntry ==
  (run.phase = "created" /\ run.err = NoErr)
    => \A p \in Paths :
         (tree[p].type = "file" /\ tree[p].readable /\ Len(tree[p].content) = 0)
           => \E i \in 1..Len(run.manifest.entries) :
                LET e == run.manifest.entries[i]
                IN /\ e.path = p /\ e.type = "file"
                   /\ e.size = 0 /\ Len(e.blocks.list) = 0

\* ------------------------------------------------------------------- C16
\* C16: after a restore of the posted manifest the bytes written for every
\* file entry are, block by block in list order, the decompressed content
\* of its blocks; when the tree is as it was backed up they are the bytes
\* of the file in the tree.
C16_RestoreReproducesContent ==
  out.phase = "done"
    => \A i \in 1..Len(srv.latest.entries) :
         LET e == srv.latest.entries[i]
         IN e.type = "file"
              => /\ out.files[e.path].type = "file"
                 /\ out.files[e.path].bytes =
                      [k \in 1..Len(e.blocks.list) |->
                         Decompress(srv.blocks[e.blocks.list[k]])]
                 /\ ~(run.round = "first" /\ run.changed)
                      => out.files[e.path].bytes =
                           [k \in 1..Len(tree[e.path].content) |->
                              Raw(tree[e.path].content[k])]

\* ------------------------------------------------------------------- C17
\* C17: a file that cannot be opened for lack of permission records no
\* error for Create, is counted once in ErrorFiles, has no entry in the
\* returned manifest and does not keep any other file from being processed.
C17_PermissionDeniedSkipsFile ==
  [][/\ \A p \in Paths :
          (wk[p].st = "run" /\ ~tree[p].readable /\ wk'[p] # wk[p])
            => /\ run'.firstErr = run.firstErr
               /\ run'.progress.ErrorFiles = run.progress.ErrorFiles + 1
               /\ wk'[p].st = "done"
               /\ \A q \in Paths \ {p} : wk'[q] = wk[q]
     /\ (run'.phase = "created" /\ run'.err = NoErr)
          => /\ run'.manifest # NilManifest
             /\ run'.progress.ErrorFiles <=
                  Cardinality({p \in Paths : tree'[p].type = "file" /\ ~tree'[p].readable})
             /\ \A p \in Paths :
                  /\ (tree'[p].type = "file" /\ ~tree'[p].readable)
                       => \A i \in 1..Len(run'.manifest.entries) :
                             run'.manifest.entries[i].path # p
                  /\ wk'[p].st \in {"none", "done"}
                  /\ (tree'[p].type = "file" /\ tree'[p].readable /\ wk'[p].st = "done")
                       => run'.entries[p].blocks.list =
                            [k \in 1..Len(tree'[p].content) |-> CID(tree'[p].content[k])]
    ]_vars

\* Create returned a manifest for a tree with an unreadable file and a
\* readable file of two chunks: the first is left out, the second is in.
C17_Witness ==
  /\ run.phase = "created" /\ run.err = NoErr
  /\ run.progress.ErrorFiles = 1
  /\ \E p \in Paths : tree[p].type = "file" /\ ~tree[p].readable /\ wk[p].fileError
  /\ \E i \in 1..Len(run.manifest.entries) :
        Len(run.manifest.entries[i].blocks.list) = 2

\* ------------------------------------------------------------------- C18
\* C18: when a goroutine hits a chunk error other than permission denied,
\* a failed probe or a failed upload, the error is recorded only if none
\* was recorded before, a recorded error is never replaced during the run,
\* and Create returns that error and no manifest.
C18_FirstErrorReturned ==
  [][/\ \A p \in Paths :
          (wk[p].hit = NoErr /\ wk'[p].hit # NoErr)
            => /\ wk'[p].hit.kind \in {"chunk", "probe", "upload"}
               /\ run'.firstErr =
                    IF run.firstErr = NoErr THEN wk'[p].hit ELSE run.firstErr
     /\ (run.firstErr # NoErr /\ run'.round = run.round)
          => run'.firstErr = run.firstErr
     /\ (run.phase = "workers" /\ run'.phase = "created"
           /\ \E p \in Paths : wk[p].hit # NoErr)
          => /\ run'.manifest = NilManifest
             /\ run'.err = run.firstErr /\ run'.err # NoErr
    ]_vars

\* Create returned the error of one goroutine although the goroutine of
\* another file hit an error of its own later.
C18_Witness ==
  /\ run.phase = "created"
  /\ \E p, q \in Paths :
       /\ p # q /\ wk[p].hit # NoErr /\ wk[q].hit # NoErr
       /\ run.err = wk[p].hit /\ run.err # wk[q].hit
  /\ run.manifest = NilManifest

\* ------------------------------------------------------------------- C19
\* C19: a probe or an upload whose failure ends the goroutine was tried
\* more than once by the client.
C19_FailureOnlyAfterRetry ==
  \A p \in Paths :
    wk[p].hit.kind \in {"probe", "upload"} => wk[p].tries >= 2

\* ======================================================================
\* The HTTP handlers over the manifest and block tables.
\* ======================================================================
MaxCreated == 3       \* manifests created in one behaviour

TagKeys == {"host"}
TagValues == {"", "a"}
\* A Go map[string]string over the keys in play.
TagMaps == UNION {[D -> TagValues] : D \in SUBSET TagKeys}

\* Indexing a Go map: the zero value "" for a key that is absent.
MapIndex(m, k) == IF k \in DOMAIN m THEN m[k] ELSE ""

\* serializeTags / deserializeTags: the JSON object of a tag map.
serializeTags(m) == {<<k, m[k]>> : k \in DOMAIN m}
deserializeTags(j) ==
  [k \in {pr[1] : pr \in j} |-> (CHOOSE pr \in j : pr[1] = k)[2]]

\* matchesTags, storage.go lines 340-347.
matchesTags(manifestTags, filterTags) ==
  \A k \in DOMAIN filterTags : MapIndex(manifestTags, k) = filterTags[k]

\* The X-Original-Size header values in play and strconv.ParseInt on them.
SizeHeaders == {"", "abc", "-5", "0", "7"}
ParseInt(str) ==
  CASE str = "-5" -> [n |-> -5, err |-> FALSE]
    [] str = "0"  -> [n |-> 0, err |-> FALSE]
    [] str = "7"  -> [n |-> 7, err |-> FALSE]
    [] OTHER      -> [n |-> 0, err |-> TRUE]

NoManifestRow == [present |-> FALSE, tags |-> {}, created_at |-> 0, born |-> 0]
NoBlockRow == [present |-> FALSE, original_size |-> 0]
NoReply == [op |-> "none", status |-> 0, ids |-> <<>>, filter |-> <<>>, id |-> 0]
Reply(op, status, id) == [NoReply EXCEPT !.op = op, !.status = status, !.id = id]

NoFound == [id |-> 0, filter |-> <<>>]

InitApi ==
  /\ blocks = [c \in Cids |-> NoBlock]
  /\ manifests = [m \in MIds |-> NoManifest]
  /\ block_refs = {}
  /\ s3 = [c \in Cids |-> NilBytes]
  /\ writeMu = Free
  /\ pc = [p \in Procs |-> "idle"]
  /\ arg = [p \in Procs |-> ZeroArg]
  /\ res = [p \in Procs |-> "none"]
  /\ known = {}
  /\ tree = <<>> /\ srv = <<>> /\ run = <<>> /\ wk = <<>> /\ out = <<>>
  /\ api = [now |-> 0, created |-> 0,
            mtab |-> [m \in MIds |-> NoManifestRow],
            btab |-> [c \in Cids |-> NoBlockRow],
            found |-> NoFound, reply |-> NoReply]
  /\ limiter = <<>> /\ ipreq = <<>> /\ folder = <<>> /\ task = <<>>
  /\ pool = <<>> /\ rest = <<>> /\ arch = <<>> /\ scan = <<>>

apiOther == <<limiter, ipreq, folder, task, pool, rest, arch, scan>>

\* Time passes.
Api_Tick ==
  /\ api.now < MaxTime
  /\ api' = [api EXCEPT !.now = @ + 1]
  /\ UNCHANGED <<storageVars, clientVars, apiOther>>

\* The response is written; the handler returns.
Api_Respond ==
  /\ api.reply # NoReply
  /\ api' = [api EXCEPT !.reply = NoReply]
  /\ UNCHANGED <<storageVars, clientVars, apiOther>>

\* handleCreateManifest with SaveManifest: the row carries the tags as JSON
\* and CreatedAt.Unix(); a stored id fails the INSERT and answers 500.
Api_CreateManifest(m, tags) ==
  /\ api.reply = NoReply
  /\ api.created < MaxCreated
  /\ IF api.mtab[m].present
       THEN api' = [api EXCEPT !.reply = Reply("create", 500, m)]
       ELSE api' = [api EXCEPT !.reply = Reply("create", 201, m),
                               !.created = @ + 1,
                               !.mtab[m] = [present |-> TRUE,
                                            tags |-> serializeTags(tags),
                                            created_at |-> Unix(api.now),
                                            born |-> api.created + 1]]
  /\ UNCHANGED <<storageVars, clientVars, apiOther>>

\* SELECT ... ORDER BY created_at DESC: the stored ids in an order the
\* database may produce; rows of the same created_at come in any order.
RowOrders ==
  LET S == {m \in MIds : api.mtab[m].present}
  IN {o \in [1..Cardinality(S) -> S] :
        /\ \A i, j \in 1..Cardinality(S) : o[i] = o[j] => i = j
        /\ \A i, j \in 1..Cardinality(S) :
              i < j => api.mtab[o[i]].created_at >= api.mtab[o[j]].created_at}

\* Storage.ListManifests, lines 214-241, over the rows in order o.
ListManifests(o, filter) ==
  SelectSeq(o, LAMBDA m : matchesTags(deserializeTags(api.mtab[m].tags), filter))

\* handleListManifests.
Api_ListManifests(filter) ==
  /\ api.reply = NoReply
  /\ \E o \in RowOrders :
       api' = [api EXCEPT !.reply = [Reply("list", 200, 0) EXCEPT
                                       !.ids = ListManifests(o, filter),
                                       !.filter = filter]]
  /\ UNCHANGED <<storageVars, clientVars, apiOther>>

\* Storage.GetLatestManifest lines 245-253 inside handleGetLatestManifest:
\* list the matching manifests; none answers 404, else the first one is
\* looked up next.
Api_GetLatest_List(filter) ==
  /\ api.reply = NoReply /\ api.found = NoFound
  /\ \E o \in RowOrders :
       LET ms == ListManifests(o, filter)
       IN IF Len(ms) = 0
            THEN api' = [api EXCEPT !.reply = [Reply("latest", 404, 0) EXCEPT
                                                  !.filter = filter]]
            ELSE api' = [api EXCEPT !.found = [id |-> ms[1], filter |-> filter]]
  /\ UNCHANGED <<storageVars, clientVars, apiOther>>

\* Storage.GetLatestManifest line 255 with GetManifest: the row may be gone
\* by now ("manifest not found"), which the handler answers 404 as well.
Api_GetLatest_Get ==
  /\ api.reply = NoReply /\ api.found # NoFound
  /\ api' = [api EXCEPT
       !.found = NoFound,
       !.reply = [Reply("latest",
                        IF api.mtab[api.found.id].present THEN 200 ELSE 404,
                        IF api.mtab[api.found.id].present THEN api.found.id ELSE 0)
                    EXCEPT !.filter = api.found.filter]]
  /\ UNCHANGED <<storageVars, clientVars, apiOther>>

\* handleGetManifest with Storage.GetManifest.
Api_GetManifest(m) ==
  /\ api.reply = NoReply
  /\ api' = [api EXCEPT !.reply =
       Reply("get_manifest", IF api.mtab[m].present THEN 200 ELSE 404, m)]
  /\ UNCHANGED <<storageVars, clientVars, apiOther>>

\* handleDeleteManifest with Storage.DeleteManifest: the DELETE statement
\* returns no error whether or not a row had the id.
Api_DeleteManifest(m) ==
  /\ api.reply = NoReply
  /\ api' = [api EXCEPT !.mtab[m] = NoManifestRow,
                        !.reply = Reply("delete_manifest", 200, m)]
  /\ UNCHANGED <<storageVars, clientVars, apiOther>>

\* handleGetBlock with Storage.GetBlock.
Api_GetBlock(c) ==
  /\ api.reply = NoReply
  /\ api' = [api EXCEPT !.reply =
       Reply("get_block", IF api.btab[c].present THEN 200 ELSE 404, c)]
  /\ UNCHANGED <<storageVars, clientVars, apiOther>>

\* handleUploadBlock lines 193-219: only a missing X-Block-CID header is
\* refused; the error of ParseInt is dropped and the number goes to
\* SaveBlock, whose INSERT OR IGNORE keeps an existing row.

Api_UploadBlock(c, hasCid, sizeHdr) ==
  /\ api.reply = NoReply
  /\ IF ~hasCid
       THEN api' = [api EXCEPT !.reply = Reply("upload_block", 400, 0)]
       ELSE api' = [api EXCEPT
              !.btab[c] = IF @.present THEN @
                          ELSE [present |-> TRUE,
                                original_size |-> ParseInt(sizeHdr).n],
              !.reply = Reply("upload_block", 201, c)]
  /\ UNCHANGED <<storageVars, clientVars, apiOther>>

NextApi ==
  \/ Api_Tick
  \/ Api_Respond
  \/ \E m \in MIds, tags \in TagMaps : Api_CreateManifest(m, tags)
  \/ \E filter \in TagMaps : Api_ListManifests(filter)
  \/ \E filter \in TagMaps : Api_GetLatest_List(filter)
  \/ Api_GetLatest_Get
  \/ \E m \in MIds : Api_GetManifest(m)
  \/ \E m \in MIds : Api_DeleteManifest(m)
  \/ \E c \in Cids : Api_GetBlock(c)
  \/ \E c \in Cids, hasCid \in BOOLEAN, sizeHdr \in SizeHeaders :
        Api_UploadBlock(c, hasCid, sizeHdr)

SpecApi == InitApi /\ [][NextApi]_vars

\* ------------------------------------------------------------------- C21
\* C21: ListManifests(filter) returns exactly the stored manifests whose
\* tags hold every key of the filter with the filter's value, each once,
\* in the order of non-increasing creation second.
C21_ListReturnsMatches ==
  [][(api.reply = NoReply /\ api'.reply.op = "list")
       => LET ids == api'.reply.ids
              f == api'.reply.filter
          IN /\ {ids[i] : i \in 1..Len(ids)} =
                  {m \in MIds :
                     /\ api.mtab[m].present
                     /\ \A k \in DOMAIN f :
                          \E pr \in api.mtab[m].tags : pr = <<k, f[k]>>}
             /\ \A i, j \in 1..Len(ids) :
                  i < j => /\ ids[i] # ids[j]
                           /\ api.mtab[ids[i]].created_at >= api.mtab[ids[j]].created_at
    ]_vars

\* ------------------------------------------------------------------- C22
\* C22: GetLatestManifest(filter) answers 200 with the manifest created
\* last among the stored manifests that match the filter, and 404 when no
\* stored manifest matches.
C22_LatestIsNewestMatch ==
  [][(api.reply = NoReply /\ api'.reply.op = "latest")
       => LET f == api'.reply.filter
              M == {m \in MIds :
                      /\ api.mtab[m].present
                      /\ \A k \in DOMAIN f :
                           \E pr \in api.mtab[m].tags : pr = <<k, f[k]>>}
          IN IF M = {}
               THEN api'.reply.status = 404
               ELSE /\ api'.reply.status = 200
                    /\ api'.reply.id \in M
                    /\ \A m \in M : api.mtab[m].born <= api.mtab[api'.reply.id].born
    ]_vars

\* ------------------------------------------------------------------- C25
\* C25: GET of a block that is not stored, GET of a manifest that is not
\* stored and DELETE of a manifest id that is not stored each answer 404
\* and leave the tables as they are.
C25_AbsentAnswers404 ==
  [][/\ \A c \in Cids :
          (api.reply = NoReply /\ api'.reply.op = "get_block"
             /\ api'.reply.id = c /\ ~api.btab[c].present)
            => /\ api'.reply.status = 404
               /\ api'.btab = api.btab /\ api'.mtab = api.mtab
     /\ \A m \in MIds :
          (api.reply = NoReply /\ api'.reply.op \in {"get_manifest", "delete_manifest"}
             /\ api'.reply.id = m /\ ~api.mtab[m].present)
            => /\ api'.reply.status = 404
               /\ api'.btab = api.btab /\ api'.mtab = api.mtab
    ]_vars

\* ------------------------------------------------------------------- C26
\* C26: every block row has original_size > 0; no upload, whatever its
\* X-Original-Size header (missing, not a number, zero or negative), has
\* left a row with another original_size.
C26_OriginalSizePositive ==
  \A c \in Cids : api.btab[c].present => api.btab[c].original_size > 0

\* ======================================================================
\* authMiddleware and the RateLimiter in front of the protected endpoints.
\* ======================================================================
NumRequests == 2      \* request goroutines inside the middleware
MaxClock == 16        \* seconds on the limiter's clock
BlockPeriod == 15     \* NewRateLimiter(15 * time.Second)

Requests == 1..NumRequests
IPs == {"x"}
ConfigToken == "T"
\* Authorization header values: none, the token bare or with the Bearer
\* prefix, another token, and the prefix alone.
AuthHeaders == {"", "T", "Bearer T", "Bearer X", "Bearer "}

\* authMiddleware lines 236-240: strip "Bearer " when something follows it.
StripBearer(h) ==
  CASE h = "Bearer T" -> "T"
    [] h = "Bearer X" -> "X"
    [] OTHER -> h

\* authMiddleware lines 226 and 242.
TokenOk(h) == h # "" /\ StripBearer(h) = ConfigToken

NotBlocked == -1
\* RateLimiter.BlockIP line 51.
BlockedUntilNow(now) == now
BlockedUntil(now) == now + BlockPeriod

\* RateLimiter.IsBlocked lines 37-42 at instant now.
IsBlocked(ip, now) ==
  /\ limiter.blockedIPs[ip] # NotBlocked
  /\ now < limiter.blockedIPs[ip]

NoRequest == [st |-> "none", ip |-> "", header |-> "", status |-> 0]

InitAuth ==
  /\ blocks = [c \in Cids |-> NoBlock]
  /\ manifests = [m \in MIds |-> NoManifest]
  /\ block_refs = {}
  /\ s3 = [c \in Cids |-> NilBytes]
  /\ writeMu = Free
  /\ pc = [p \in Procs |-> "idle"]
  /\ arg = [p \in Procs |-> ZeroArg]
  /\ res = [p \in Procs |-> "none"]
  /\ known = {}
  /\ tree = <<>> /\ srv = <<>> /\ run = <<>> /\ wk = <<>> /\ out = <<>>
  /\ api = <<>> /\ ipreq = <<>> /\ folder = <<>> /\ task = <<>>
  /\ pool = <<>> /\ rest = <<>> /\ arch = <<>> /\ scan = <<>>
  /\ limiter = [now |-> 0,
                blockedIPs |-> [ip \in IPs |-> NotBlocked],
                lastFail |-> [ip \in IPs |-> NotBlocked],
                req |-> [r \in Requests |-> NoRequest]]

authOther == <<api, ipreq, folder, task, pool, rest, arch, scan>>

\* A second passes.
Auth_Tick ==
  /\ limiter.now < MaxClock
  /\ limiter' = [limiter EXCEPT !.now = @ + 1]
  /\ UNCHANGED <<storageVars, clientVars, authOther>>

\* The lookup with a refusal that starts the block period anew.
Auth_CheckExtends(r, ip, header) ==
  /\ limiter.req[r].st = "none"
  /\ limiter' = IF IsBlocked(ip, limiter.now)
       THEN [limiter EXCEPT
               !.req[r] = [st |-> "done", ip |-> ip, header |-> header, status |-> 429],
               !.blockedIPs[ip] = BlockedUntil(limiter.now)]
       ELSE [limiter EXCEPT
               !.req[r] = [st |-> "checked", ip |-> ip, header |-> header, status |-> 0]]
  /\ UNCHANGED <<storageVars, clientVars, authOther>>

\* authMiddleware lines 215-223: the IP of the request is looked up in the
\* limiter; a blocked IP is answered 429.
Auth_Check(r, ip, header) ==
  /\ limiter.req[r].st = "none"
  /\ limiter' = [limiter EXCEPT !.req[r] =
       IF IsBlocked(ip, limiter.now)
         THEN [st |-> "done", ip |-> ip, header |-> header, status |-> 429]
         ELSE [st |-> "checked", ip |-> ip, header |-> header, status |-> 0]]
  /\ UNCHANGED <<storageVars, clientVars, authOther>>

\* authMiddleware lines 225-249: a missing or wrong token blocks the IP
\* and is answered 401; else the handler runs.
Auth_Token(r) ==
  /\ limiter.req[r].st = "checked"
  /\ LET q == limiter.req[r]
     IN IF TokenOk(q.header)
          THEN limiter' = [limiter EXCEPT !.req[r].st = "done", !.req[r].status = 200]
          ELSE limiter' = [limiter EXCEPT
                 !.req[r].st = "done", !.req[r].status = 401,
                 !.blockedIPs[q.ip] = BlockedUntil(limiter.now),
                 !.lastFail[q.ip] = limiter.now]
  /\ UNCHANGED <<storageVars, clientVars, authOther>>

\* The response is written.
Auth_Return(r) ==
  /\ limiter.req[r].st = "done"
  /\ limiter' = [limiter EXCEPT !.req[r] = NoRequest]
  /\ UNCHANGED <<storageVars, clientVars, authOther>>

\* RateLimiter.cleanup lines 59-67: drop the blocks that have expired.
Auth_Cleanup ==
  /\ \E ip \in IPs : limiter.blockedIPs[ip] # NotBlocked
                      /\ limiter.now > limiter.blockedIPs[ip]
  /\ limiter' = [limiter EXCEPT !.blockedIPs =
       [ip \in IPs |-> IF @[ip] # NotBlocked /\ limiter.now > @[ip]
                         THEN NotBlocked ELSE @[ip]]]
  /\ UNCHANGED <<storageVars, clientVars, authOther>>

NextAuth ==
  \/ Auth_Tick
  \/ \E r \in Requests, ip \in IPs, h \in AuthHeaders : Auth_Check(r, ip, h)
  \/ \E r \in Requests : Auth_Token(r)
  \/ \E r \in Requests : Auth_Return(r)
  \/ Auth_Cleanup

SpecAuth == InitAuth /\ [][NextAuth]_vars

\* ------------------------------------------------------------------- C23
\* C23: a request that reaches the middleware from an IP whose last 401
\* was answered less than 15 seconds ago is answered 429; a request from
\* an IP without such a failure is not, and its token is checked: 200 for
\* the configured token, 401 for a missing or another one.
C23_BlockedFor15Seconds ==
  [][\A r \in Requests :
       /\ (limiter.req[r].st = "none" /\ limiter'.req[r].st # "none")
            => LET ip == limiter'.req[r].ip
               IN IF /\ limiter.lastFail[ip] # NotBlocked
                     /\ limiter.now < limiter.lastFail[ip] + 15
                    THEN limiter'.req[r].status = 429
                    ELSE limiter'.req[r].st = "checked"
       /\ (limiter.req[r].st = "checked" /\ limiter'.req[r].st = "done")
            => limiter'.req[r].status =
                 IF limiter.req[r].header \in {"T", "Bearer T"} THEN 200 ELSE 401
    ]_vars

\* After a 401 the same IP was refused with the right token inside the
\* window.
C23_Witness ==
  \E r \in Requests :
    /\ limiter.req[r].status = 429 /\ limiter.req[r].header = "Bearer T"
    /\ limiter.lastFail[limiter.req[r].ip] # NotBlocked
    /\ limiter.now = limiter.lastFail[limiter.req[r].ip] + 14

\* ------------------------------------------------------------------- C36
\* C36: the step that answers a request 429 leaves the limiter's table as
\* it is; the table changes only with a 401 or when expired blocks are
\* dropped; a block ends blockPeriod after the last 401 of its IP; and a
\* request refused with 429, whatever its token, is never handed to the
\* handler.
C36_RefusalLeavesLimiterAlone ==
  [][/\ \A r \in Requests :
          /\ limiter'.req[r].status = 429 /\ limiter.req[r].status # 429
               => /\ limiter'.blockedIPs = limiter.blockedIPs
                  /\ limiter.req[r].st = "none"
          /\ limiter.req[r].status = 429 /\ limiter'.req[r] # limiter.req[r]
               => limiter'.req[r] = NoRequest
     /\ limiter'.blockedIPs # limiter.blockedIPs
          => \/ \E r \in Requests :
                  limiter'.req[r].status = 401 /\ limiter.req[r].status # 401
             \/ \A ip \in IPs :
                  limiter'.blockedIPs[ip] # limiter.blockedIPs[ip]
                    => /\ limiter'.blockedIPs[ip] = NotBlocked
                       /\ limiter.now > limiter.blockedIPs[ip]
     /\ \A ip \in IPs :
          limiter'.blockedIPs[ip] # NotBlocked
            => limiter'.blockedIPs[ip] = limiter'.lastFail[ip] + BlockPeriod
    ]_vars

\* Five seconds into the block a request with the right token has been
\* refused, and the block still ends fifteen seconds after the 401.
C36_Witness ==
  \E r \in Requests :
    /\ limiter.req[r].status = 429 /\ limiter.req[r].header = "T"
    /\ limiter.now = limiter.lastFail[limiter.req[r].ip] + 5
    /\ limiter.blockedIPs[limiter.req[r].ip] = limiter.now + 10

\* ======================================================================
\* GetRealIP: the client address of a request.
\* ======================================================================
MaxHops == 2          \* entries of an X-Forwarded-For header

\* Header values in play: absent, not an address, an address, an address
\* in blanks, an address with a port.
HeaderValues == {"", "bad", "1.1.1.1", " 2.2.2.2 ", "3.3.3.3:80"}
\* X-Forwarded-For entries, as strings.Split(xff, ",") yields them.
HopValues == {"bad", "1.1.1.1", " 2.2.2.2 "}
ForwardedFor == UNION {[1..n -> HopValues] : n \in 0..MaxHops}
\* What c.ClientIP() yields for the peer.
PeerValues == {"9.9.9.9", "bad"}

\* parseIP lines 114-132: trim, strip a port, net.ParseIP, ip.String().
parseIP(ipStr) ==
  CASE ipStr = "1.1.1.1"    -> "1.1.1.1"
    [] ipStr = " 2.2.2.2 "  -> "2.2.2.2"
    [] ipStr = "3.3.3.3:80" -> "3.3.3.3"
    [] ipStr = "9.9.9.9"    -> "9.9.9.9"
    [] OTHER                -> ""

\* GetRealIP lines 98-106: the first entry of X-Forwarded-For; an absent
\* header has none.
LastHop(xff) == IF Len(xff) = 0 THEN "" ELSE xff[Len(xff)]
FirstHop(xff) == IF Len(xff) = 0 THEN "" ELSE xff[1]

\* GetRealIP lines 72-110.
GetRealIP(q) ==
  IF q.cf # "" /\ parseIP(q.cf) # "" THEN parseIP(q.cf)
  ELSE IF q.tci # "" /\ parseIP(q.tci) # "" THEN parseIP(q.tci)
  ELSE IF q.xri # "" /\ parseIP(q.xri) # "" THEN parseIP(q.xri)
  ELSE IF Len(q.xff) > 0 /\ parseIP(FirstHop(q.xff)) # "" THEN parseIP(FirstHop(q.xff))
  ELSE parseIP(q.peer)

InitRealIP ==
  /\ blocks = [c \in Cids |-> NoBlock]
  /\ manifests = [m \in MIds |-> NoManifest]
  /\ block_refs = {}
  /\ s3 = [c \in Cids |-> NilBytes]
  /\ writeMu = Free
  /\ pc = [p \in Procs |-> "idle"]
  /\ arg = [p \in Procs |-> ZeroArg]
  /\ res = [p \in Procs |-> "none"]
  /\ known = {}
  /\ tree = <<>> /\ srv = <<>> /\ run = <<>> /\ wk = <<>> /\ out = <<>>
  /\ api = <<>> /\ limiter = <<>> /\ folder = <<>> /\ task = <<>>
  /\ pool = <<>> /\ rest = <<>> /\ arch = <<>> /\ scan = <<>>
  /\ ipreq \in [cf : HeaderValues, tci : HeaderValues, xri : HeaderValues,
                xff : ForwardedFor, peer : PeerValues,
                called : {FALSE}, clientIP : {""}]

\* authMiddleware line 215: clientIP := GetRealIP(c).
RealIP_Call ==
  /\ ~ipreq.called
  /\ ipreq' = [ipreq EXCEPT !.called = TRUE, !.clientIP = GetRealIP(ipreq)]
  /\ UNCHANGED <<storageVars, clientVars, api, limiter, folder, task, pool, rest, arch, scan>>

NextRealIP == RealIP_Call

SpecRealIP == InitRealIP /\ [][NextRealIP]_vars

AllEntries ==
  << [path |-> <<"proj">>, type |-> "dir"],
     [path |-> <<"proj", "docs">>, type |-> "dir"],
     [path |-> <<"proj", "docs", "a.md">>, type |-> "file"],
     [path |-> <<"proj", "src">>, type |-> "dir"],
     [path |-> <<"proj", "src", "main.rs">>, type |-> "file"],
     [path |-> <<"proj", "srcx">>, type |-> "file"] >>
FolderPaths == {<<"proj">>, <<"proj", "src">>, <<"proj", "docs">>, <<"other">>}

\* filepath.Base.
Base(path) == path[Len(path)]

\* strings.HasPrefix(entry.Path, folderPath + "/").
HasFolderPrefix(path, folderPath) ==
  /\ Len(path) > Len(folderPath)
  /\ SubSeq(path, 1, Len(folderPath)) = folderPath

\* handleDownloadFolder lines 382-390: the entries of the folder.
InFolder(path, folderPath) == path = folderPath \/ HasFolderPrefix(path, folderPath)

\* streamTarGz lines 511-520: the name an entry gets in the archive.
ArchiveName(path, stripPrefix) ==
  IF path = stripPrefix
    THEN <<Base(path)>>
    ELSE IF HasFolderPrefix(path, stripPrefix)
      THEN SubSeq(path, Len(stripPrefix) + 1, Len(path))
      ELSE path

InitFolder ==
  /\ blocks = [c \in Cids |-> NoBlock]
  /\ manifests = [m \in MIds |-> NoManifest]
  /\ block_refs = {}
  /\ s3 = [c \in Cids |-> NilBytes]
  /\ writeMu = Free
  /\ pc = [p \in Procs |-> "idle"]
  /\ arg = [p \in Procs |-> ZeroArg]
  /\ res = [p \in Procs |-> "none"]
  /\ known = {}
  /\ tree = <<>> /\ srv = <<>> /\ run = <<>> /\ wk = <<>> /\ out = <<>>
  /\ api = <<>> /\ limiter = <<>> /\ ipreq = <<>> /\ task = <<>>
  /\ pool = <<>> /\ rest = <<>> /\ arch = <<>> /\ scan = <<>>
  /\ \E S \in SUBSET (1..Len(AllEntries)), P \in FolderPaths :
       folder = [entries |-> SelectSeq(AllEntries,
                                 LAMBDA e : \E i \in S : AllEntries[i] = e),
                 folderPath |-> P, status |-> 0, archive |-> <<>>]

\* handleDownloadFolder with streamTarGz: 404 when no entry is in the
\* folder, else one archive member per entry of the folder, in manifest
\* order.
Folder_Download ==
  /\ folder.status = 0
  /\ LET filtered == SelectSeq(folder.entries,
                        LAMBDA e : InFolder(e.path, folder.folderPath))
     IN IF Len(filtered) = 0
          THEN folder' = [folder EXCEPT !.status = 404]
          ELSE folder' = [folder EXCEPT
                 !.status = 200,
                 !.archive = [i \in 1..Len(filtered) |->
                                [name |-> ArchiveName(filtered[i].path, folder.folderPath),
                                 type |-> filtered[i].type]]]
  /\ UNCHANGED <<storageVars, clientVars, api, limiter, ipreq, task, pool, rest, arch, scan>>

NextFolder == Folder_Download

SpecFolder == InitFolder /\ [][NextFolder]_vars

\* ------------------------------------------------------------------- C27
\* C27: the archive of folder P has one member for every manifest entry
\* that is P or lies below P and none for any other entry; the entry P is
\* named basename(P) and an entry P/x is named basename(P)/x.
C27_FolderRerootedAtBasename ==
  folder.status = 200
    => LET P == folder.folderPath
           under == SelectSeq(folder.entries,
                      LAMBDA e : /\ Len(e.path) >= Len(P)
                                 /\ \A k \in 1..Len(P) : e.path[k] = P[k])
       IN /\ Len(folder.archive) = Len(under)
          /\ \A i \in 1..Len(under) :
               folder.archive[i].name =
                 <<P[Len(P)]>> \o [k \in 1..(Len(under[i].path) - Len(P)) |->
                                     under[i].path[Len(P) + k]]

C30_RowWithKeyHasObject ==
  pc[Pruner] \notin {"pr_gc", "pr_unlock"} =>
    \A c \in Cids :
      (blocks[c].present /\ blocks[c].s3_key # NoKey)
        => s3[blocks[c].s3_key] # NilBytes

\* ------------------------------------------------------------------- C31
\* C31: while a CID keeps its block row, the bytes GetBlock returns for it
\* never change: no step replaces content that was served by other content.
C31_ContentOfCidNeverChanges ==
  [][\A c \in Cids :
       (/\ blocks[c].present /\ blocks'[c].present
        /\ GetBlock(c).err = "" /\ GetBlock(c)'.err = "")
       => GetBlock(c)'.data = GetBlock(c).data]_vars

\* ======================================================================
\* runPruner: the retention loop of the server.
\* ======================================================================
HoursPerTick == 24    \* time.NewTicker(24 * time.Hour)

\* runPruner lines 269-273 and prune lines 280-282: whatever
\* PruneManifests returns, prune returns and the loop waits for the ticker.
AfterPruneStopOnError(result) == IF result = "err" THEN "stopped" ELSE "wait"
AfterPrune(result) == "wait"

InitPruner ==
  /\ blocks = [c \in Cids |-> NoBlock]
  /\ manifests = [m \in MIds |-> NoManifest]
  /\ block_refs = {}
  /\ s3 = [c \in Cids |-> NilBytes]
  /\ writeMu = Free
  /\ pc = [p \in Procs |-> "idle"]
  /\ arg = [p \in Procs |-> ZeroArg]
  /\ res = [p \in Procs |-> "none"]
  /\ known = {}
  /\ tree = <<>> /\ srv = <<>> /\ run = <<>> /\ wk = <<>> /\ out = <<>>
  /\ api = <<>> /\ limiter = <<>> /\ ipreq = <<>> /\ folder = <<>>
  /\ pool = <<>> /\ rest = <<>> /\ arch = <<>> /\ scan = <<>>
  /\ task = [pc |-> "start", hour |-> 0, pending |-> 0,
             after |-> "none", logged |-> FALSE]

\* Server.Run line 113 and runPruner lines 265-269: the goroutine starts,
\* creates the ticker and calls prune at once.
Task_Startup ==
  /\ task.pc = "start"
  /\ task' = [task EXCEPT !.pc = "pruning"]
  /\ UNCHANGED <<storageVars, clientVars, api, limiter, ipreq, folder, pool, rest, arch, scan>>

\* An hour passes; every 24th the ticker sends on its channel of capacity
\* one, and drops the tick when the channel is full.
Task_Hour ==
  /\ task.pc # "start"
  /\ task' = [task EXCEPT !.hour = (@ + 1) % HoursPerTick,
                          !.pending = IF task.hour + 1 = HoursPerTick THEN 1 ELSE @]
  /\ UNCHANGED <<storageVars, clientVars, api, limiter, ipreq, folder, pool, rest, arch, scan>>

\* prune lines 276-282: PruneManifests returns nil or an error; the error
\* is printed and nothing is returned.
Task_PruneReturns(result) ==
  /\ task.pc = "pruning"
  /\ task' = [task EXCEPT !.pc = AfterPrune(result),
                          !.after = result,
                          !.logged = (result = "err")]
  /\ UNCHANGED <<storageVars, clientVars, api, limiter, ipreq, folder, pool, rest, arch, scan>>

\* runPruner lines 271-273: `for range ticker.C` takes the tick and calls
\* prune.
Task_Receive ==
  /\ task.pc = "wait" /\ task.pending = 1
  /\ task' = [task EXCEPT !.pc = "pruning", !.pending = 0]
  /\ UNCHANGED <<storageVars, clientVars, api, limiter, ipreq, folder, pool, rest, arch, scan>>

NextPruner ==
  \/ Task_Startup
  \/ Task_Hour
  \/ \E result \in {"ok", "err"} : Task_PruneReturns(result)
  \/ Task_Receive

SpecPruner == InitPruner /\ [][NextPruner]_vars

\* The goroutine is scheduled, time passes, and a PruneManifests call
\* returns.
SpecPrunerLive ==
  /\ SpecPruner
  /\ WF_vars(Task_Startup)
  /\ WF_vars(Task_Hour)
  /\ WF_vars(\E result \in {"ok", "err"} : Task_PruneReturns(result))
  /\ WF_vars(Task_Receive)

\* ------------------------------------------------------------------- C28
\* C28: the retention task calls PruneManifests when the server has
\* started, calls it again after every tick the ticker delivers, and goes
\* on doing so forever, also after a call that returned an error; the
\* error is logged and the task never stops.
C28_PrunerRunsForever ==
  /\ (task.pc = "start") ~> (task.pc = "pruning")
  /\ (task.pending = 1) ~> (task.pc = "pruning" /\ task.pending = 0)
  /\ []<>(task.pc = "pruning")
  /\ [](task.after = "err" => task.logged /\ task.pc \in {"wait", "pruning"})

\* A prune call is running on a tick after the call before it failed.
C28_Witness ==
  /\ task.pc = "pruning" /\ task.after = "err" /\ task.logged
  /\ task.hour = 0

\* ======================================================================
\* Creator.Create: the semaphore and the goroutines of the file entries.
\* ======================================================================
NumFiles == 3         \* file entries that get a goroutine
PoolSize == 2         \* c.concurrency

Files == 1..NumFiles
\* The chunks the channel of ChunkFile yields for a file, in read order.
FileChunks == ChunkFile(<<"a">>)

\* creator.go line 135: `sem <- struct{}{}` proceeds while the channel of
\* capacity c.concurrency is not full.
CanAcquireAlways(n) == TRUE
CanAcquire(n) == n < PoolSize

\* creator.go line 136: `defer func() { <-sem }()` takes one token out.
SemAfterReleaseLeak(n) == n
SemAfterRelease(n) == n - 1

NoGoroutine == [st |-> "none", idx |-> 0]

InitPool ==
  /\ blocks = [c \in Cids |-> NoBlock]
  /\ manifests = [m \in MIds |-> NoManifest]
  /\ block_refs = {}
  /\ s3 = [c \in Cids |-> NilBytes]
  /\ writeMu = Free
  /\ pc = [p \in Procs |-> "idle"]
  /\ arg = [p \in Procs |-> ZeroArg]
  /\ res = [p \in Procs |-> "none"]
  /\ known = {}
  /\ tree = <<>> /\ srv = <<>> /\ run = <<>> /\ wk = <<>> /\ out = <<>>
  /\ api = <<>> /\ limiter = <<>> /\ ipreq = <<>> /\ folder = <<>> /\ task = <<>>
  /\ rest = <<>> /\ arch = <<>> /\ scan = <<>>
  /\ pool = [phase |-> "spawn", next |-> 1, cancelled |-> FALSE, sem |-> 0,
             g |-> [f \in Files |-> NoGoroutine],
             firstErr |-> NoErr, result |-> "none"]

poolOther ==
  <<storageVars, clientVars, api, limiter, ipreq, folder, task, rest, arch, scan>>

\* Lines 105-132: the loop over the entries starts the goroutine of the
\* next file, and after the last one Create is at wg.Wait().
Pool_Spawn ==
  /\ pool.phase = "spawn"
  /\ pool' = [pool EXCEPT !.g[pool.next].st = "spawned",
                          !.next = @ + 1,
                          !.phase = IF pool.next = NumFiles THEN "wait" ELSE "spawn"]
  /\ UNCHANGED poolOther

\* Line 135: the goroutine takes a slot of sem.
Pool_Acquire(f) ==
  /\ pool.g[f].st = "spawned"
  /\ CanAcquire(pool.sem)
  /\ pool' = [pool EXCEPT !.sem = @ + 1, !.g[f].st = "slot"]
  /\ UNCHANGED poolOther

\* Lines 139-148: a cancelled context is recorded and the goroutine
\* returns; so it does when it sees an error recorded (the read of firstErr
\* is not synchronised, a recorded error may go unseen).
Pool_Check(f, seen) ==
  /\ pool.g[f].st = "slot"
  /\ seen => pool.firstErr # NoErr
  /\ IF pool.cancelled
       THEN pool' = [pool EXCEPT !.firstErr = Record(@, Err("ctx", f)),
                               !.g[f].st = "ret"]
       ELSE pool' = [pool EXCEPT !.g[f].st = IF seen THEN "ret" ELSE "chunk"]
  /\ UNCHANGED poolOther

\* Lines 160-172 and 198-208, the next item of the chunk channel: a chunk,
\* a permission error (the channel is drained and the file skipped),
\* another error (recorded), or the end of the channel.
Pool_Chunk(f, item) ==
  /\ pool.g[f].st = "chunk"
  /\ (item = "end") = (pool.g[f].idx = Len(FileChunks))
  /\ pool' = CASE item = "chunk" -> [pool EXCEPT !.g[f].st = "probe"]
               [] item = "perm" -> [pool EXCEPT !.g[f].st = "ret"]
               [] item = "error" -> [pool EXCEPT !.firstErr = Record(@, Err("chunk", f)),
                                                 !.g[f].st = "ret"]
               [] item = "end" -> [pool EXCEPT !.g[f].st = "ret"]
  /\ UNCHANGED poolOther

\* Lines 175-179: BlockExists answers, or fails.
Pool_Probe(f, answer) ==
  /\ pool.g[f].st = "probe"
  /\ pool' = CASE answer = "exists" -> [pool EXCEPT !.g[f].st = "chunk", !.g[f].idx = @ + 1]
               [] answer = "absent" -> [pool EXCEPT !.g[f].st = "upload"]
               [] answer = "err" -> [pool EXCEPT !.firstErr = Record(@, Err("probe", f)),
                                                 !.g[f].st = "ret"]
  /\ UNCHANGED poolOther

\* Lines 181-188: UploadBlock succeeds, or fails.
Pool_Upload(f, uploadOk) ==
  /\ pool.g[f].st = "upload"
  /\ pool' = IF uploadOk
               THEN [pool EXCEPT !.g[f].st = "chunk", !.g[f].idx = @ + 1]
               ELSE [pool EXCEPT !.firstErr = Record(@, Err("upload", f)),
                                 !.g[f].st = "ret"]
  /\ UNCHANGED poolOther

\* Line 136, deferred: the slot is given back.
Pool_Release(f) ==
  /\ pool.g[f].st = "ret"
  /\ pool' = [pool EXCEPT !.sem = SemAfterRelease(@), !.g[f].st = "released"]
  /\ UNCHANGED poolOther

\* Line 133, deferred: wg.Done().
Pool_WgDone(f) ==
  /\ pool.g[f].st = "released"
  /\ pool' = [pool EXCEPT !.g[f].st = "done"]
  /\ UNCHANGED poolOther

\* The context of runCreate is cancelled or times out.
Pool_Cancel ==
  /\ pool.phase # "returned"
  /\ ~pool.cancelled
  /\ pool' = [pool EXCEPT !.cancelled = TRUE]
  /\ UNCHANGED poolOther

\* Lines 213-233: wg.Wait() returns when every goroutine has called Done;
\* Create returns the recorded error, or the manifest.
Pool_Return ==
  /\ pool.phase = "wait"
  /\ \A f \in Files : pool.g[f].st = "done"
  /\ pool' = [pool EXCEPT !.phase = "returned",
                          !.result = IF pool.firstErr # NoErr THEN "error" ELSE "manifest"]
  /\ UNCHANGED poolOther

NextPool ==
  \/ Pool_Spawn
  \/ \E f \in Files : Pool_Acquire(f)
  \/ \E f \in Files, seen \in BOOLEAN : Pool_Check(f, seen)
  \/ \E f \in Files, item \in {"chunk", "perm", "error", "end"} : Pool_Chunk(f, item)
  \/ \E f \in Files, answer \in {"exists", "absent", "err"} : Pool_Probe(f, answer)
  \/ \E f \in Files, ok \in BOOLEAN : Pool_Upload(f, ok)
  \/ \E f \in Files : Pool_Release(f)
  \/ \E f \in Files : Pool_WgDone(f)
  \/ Pool_Cancel
  \/ Pool_Return

SpecPool == InitPool /\ [][NextPool]_vars

\* Every goroutine that can run is scheduled, the chunk channel yields its
\* next item, and the HTTP calls return (the client has a timeout).
SpecPoolLive ==
  /\ SpecPool
  /\ WF_vars(Pool_Spawn)
  /\ \A f \in Files :
       /\ WF_vars(Pool_Acquire(f))
       /\ WF_vars(\E seen \in BOOLEAN : Pool_Check(f, seen))
       /\ WF_vars(\E item \in {"chunk", "perm", "error", "end"} : Pool_Chunk(f, item))
       /\ WF_vars(\E answer \in {"exists", "absent", "err"} : Pool_Probe(f, answer))
       /\ WF_vars(\E ok \in BOOLEAN : Pool_Upload(f, ok))
       /\ WF_vars(Pool_Release(f))
       /\ WF_vars(Pool_WgDone(f))
  /\ WF_vars(Pool_Return)

\* Goroutines that chunk, probe or upload.
AtWork == {f \in Files : pool.g[f].st \in {"chunk", "probe", "upload"}}
\* Goroutines that hold a slot of sem.
Holding == {f \in Files : pool.g[f].st \in {"slot", "chunk", "probe", "upload", "ret"}}

\* ------------------------------------------------------------------- C32
\* C32: at no time do more than c.concurrency goroutines chunk, probe or
\* upload; those that do hold a slot of the semaphore, one each.
C32_AtMostConcurrencyAtWork ==
  /\ Cardinality(AtWork) <= PoolSize
  /\ AtWork \subseteq Holding
  /\ Cardinality(Holding) = pool.sem

\* As many files are at work as the pool allows while the goroutine of
\* another file waits for a slot.
C32_Witness ==
  /\ Cardinality(AtWork) = PoolSize
  /\ \E f \in Files : pool.g[f].st = "spawned"

\* ------------------------------------------------------------------- C38
\* C38: Create returns in the end, with a manifest or with an error, and
\* by then every goroutine has given its slot back and called Done,
\* whichever way it left.
C38_CreateTerminates ==
  /\ <>(pool.phase = "returned")
  /\ [](pool.phase = "returned"
          => /\ pool.result \in {"manifest", "error"}
             /\ pool.sem = 0
             /\ \A f \in Files : pool.g[f].st = "done")

\* Create has returned the error a goroutine recorded on a failed read,
\* probe or upload; the context was cancelled on the way, and every slot
\* is back.
C38_Witness ==
  /\ pool.phase = "returned" /\ pool.result = "error"
  /\ pool.cancelled
  /\ pool.firstErr.kind \in {"chunk", "probe", "upload"}
  /\ pool.sem = 0

\* ======================================================================
\* Restorer.Restore, second and third pass, and Restorer.restoreFile with
\* its download goroutines.
\* ======================================================================
NumRestEntries == 2   \* file entries of the manifest that is restored
NumBlocks == 3        \* blocks of every file entry

RestEntries == 1..NumRestEntries
BlockIdx == 1..NumBlocks

\* r.concurrency, the capacity of sem in restoreFile.
restoreConcurrency == PoolSize

\* What DownloadBlock returns for block idx of entry e.
BlockData(e, idx) == <<e, idx>>
NoBlockData == <<>>

\* part_002 line 118: blocks[idx] = data.
SlotForArrival(idx, filled) == filled + 1
SlotFor(idx, filled) == idx

\* part_002 lines 126-132: the file is opened only when errChan is empty.
CreatesFileAlways(errs) == TRUE
CreatesFile(errs) == errs = 0

\* A destination path: absent, or a file with bytes.
Absent == [exists |-> FALSE, bytes |-> <<>>]
OldFile == [exists |-> TRUE, bytes |-> <<"old">>]

NewFileRun ==
  [next |-> 1, sem |-> 0, errs |-> 0, firstIn |-> 0,
   d |-> [i \in BlockIdx |-> "none"],
   blocks |-> [i \in BlockIdx |-> NoBlockData],
   k |-> 1]

InitRestore ==
  /\ blocks = [c \in Cids |-> NoBlock]
  /\ manifests = [m \in MIds |-> NoManifest]
  /\ block_refs = {}
  /\ s3 = [c \in Cids |-> NilBytes]
  /\ writeMu = Free
  /\ pc = [p \in Procs |-> "idle"]
  /\ arg = [p \in Procs |-> ZeroArg]
  /\ res = [p \in Procs |-> "none"]
  /\ known = {}
  /\ tree = <<>> /\ srv = <<>> /\ run = <<>> /\ wk = <<>> /\ out = <<>>
  /\ api = <<>> /\ limiter = <<>> /\ ipreq = <<>> /\ folder = <<>> /\ task = <<>>
  /\ pool = <<>> /\ arch = <<>> /\ scan = <<>>
  /\ \E before \in [RestEntries -> {Absent, OldFile}] :
       rest = [phase |-> "spawn", entry |-> 1, why |-> "none",
               before |-> before, dest |-> before, meta |-> {},
               f |-> NewFileRun]

restOther ==
  <<storageVars, clientVars, api, limiter, ipreq, folder, task, pool, arch, scan>>

\* restoreFile lines 103-121: the loop starts the goroutine of the next
\* block; after the last one restoreFile is at wg.Wait().
Rest_Spawn ==
  /\ rest.phase = "spawn"
  /\ rest' = [rest EXCEPT !.f.d[rest.f.next] = "spawned",
                          !.f.next = @ + 1,
                          !.phase = IF rest.f.next = NumBlocks THEN "wait" ELSE "spawn"]
  /\ UNCHANGED restOther

\* Line 108: the goroutine takes a slot of sem and calls DownloadBlock.
Rest_Acquire(i) ==
  /\ rest.f.d[i] = "spawned"
  /\ rest.f.sem < restoreConcurrency
  /\ rest' = [rest EXCEPT !.f.sem = @ + 1, !.f.d[i] = "fetch"]
  /\ UNCHANGED restOther

\* Lines 111-119: DownloadBlock returns; an error goes into errChan, the
\* data into its place in blocks.
Rest_Downloaded(i, fetchOk) ==
  /\ rest.f.d[i] = "fetch"
  /\ IF fetchOk
       THEN LET filled == Cardinality({j \in BlockIdx : rest.f.blocks[j] # NoBlockData})
            IN rest' = [rest EXCEPT !.f.blocks[SlotFor(i, filled)] = BlockData(rest.entry, i),
                                    !.f.firstIn = IF @ = 0 THEN i ELSE @,
                                    !.f.d[i] = "ret"]
       ELSE rest' = [rest EXCEPT !.f.errs = @ + 1, !.f.d[i] = "ret"]
  /\ UNCHANGED restOther

\* Lines 106 and 109, deferred: the slot is given back and wg.Done called.
Rest_Exit(i) ==
  /\ rest.f.d[i] = "ret"
  /\ rest' = [rest EXCEPT !.f.sem = @ - 1, !.f.d[i] = "done"]
  /\ UNCHANGED restOther

\* Lines 123-136, and Restore line 54-56 when restoreFile returns an
\* error: after wg.Wait a queued error is returned; else the destination
\* is created or truncated, which may fail.
Rest_Collect(openOk) ==
  /\ rest.phase = "wait"
  /\ \A i \in BlockIdx : rest.f.d[i] = "done"
  /\ LET opened == CreatesFile(rest.f.errs) /\ openOk
     IN rest' = [rest EXCEPT
          !.dest[rest.entry] = IF opened THEN [exists |-> TRUE, bytes |-> <<>>] ELSE @,
          !.phase = IF rest.f.errs > 0 \/ ~openOk THEN "failed" ELSE "write",
          !.why = IF rest.f.errs > 0 THEN "download"
                  ELSE IF ~openOk THEN "open" ELSE @]
  /\ UNCHANGED restOther

\* Lines 141-147: the next element of blocks is written; after the last
\* one restoreFile returns nil and Restore goes to the next entry, or to
\* its third pass.
Rest_Write(writeOk) ==
  /\ rest.phase = "write"
  /\ IF ~writeOk
       THEN rest' = [rest EXCEPT !.phase = "failed", !.why = "write"]
       ELSE LET written == [rest EXCEPT !.dest[rest.entry].bytes =
                                           Append(@, rest.f.blocks[rest.f.k]),
                                        !.f.k = @ + 1]
            IN rest' = IF rest.f.k < NumBlocks THEN written
                       ELSE IF rest.entry < NumRestEntries
                         THEN [written EXCEPT !.entry = @ + 1, !.phase = "spawn",
                                              !.f = NewFileRun]
                         ELSE [written EXCEPT !.phase = "meta"]
  /\ UNCHANGED restOther

\* Restore lines 66-86: modes and times of every entry are set; return nil.
Rest_Meta ==
  /\ rest.phase = "meta"
  /\ rest' = [rest EXCEPT !.phase = "done", !.meta = RestEntries]
  /\ UNCHANGED restOther

NextRestore ==
  \/ Rest_Spawn
  \/ \E i \in BlockIdx : Rest_Acquire(i)
  \/ \E i \in BlockIdx, ok \in BOOLEAN : Rest_Downloaded(i, ok)
  \/ \E i \in BlockIdx : Rest_Exit(i)
  \/ \E ok \in BOOLEAN : Rest_Collect(ok)
  \/ \E ok \in BOOLEAN : Rest_Write(ok)
  \/ Rest_Meta

SpecRestore == InitRestore /\ [][NextRestore]_vars

\* The blocks of entry e in block-list order, up to the n-th.
InOrder(e, n) == [i \in 1..n |-> BlockData(e, i)]

\* ------------------------------------------------------------------- C33
\* C33: what restoreFile has written to a destination is, at every moment,
\* the blocks of the entry in block-list order from the first one on, all
\* of them once the file is complete; and at most r.concurrency downloads
\* of the file are in flight.
C33_WritesInIndexOrder ==
  /\ \A e \in RestEntries :
       rest.dest[e] # rest.before[e] =>
         /\ rest.dest[e].bytes = InOrder(e, Len(rest.dest[e].bytes))
         /\ (e < rest.entry \/ rest.phase \in {"meta", "done"})
              => rest.dest[e].bytes = InOrder(e, NumBlocks)
  /\ Cardinality({i \in BlockIdx : rest.f.d[i] = "fetch"}) <= restoreConcurrency

\* The last block of the last file was the first to come in, and the file
\* has been written.
C33_Witness ==
  /\ rest.phase = "done"
  /\ rest.f.firstIn = NumBlocks
  /\ \A e \in RestEntries : rest.dest[e].bytes = InOrder(e, NumBlocks)

\* ------------------------------------------------------------------- C37
\* C37: when Restore has stopped on a failed download, the destination of
\* the entry it failed on and of every later entry is as it was before the
\* restore, and no metadata has been applied.
C37_FailedDownloadStopsRestore ==
  (rest.phase = "failed" /\ rest.why = "download") =>
    /\ \A e \in RestEntries : e >= rest.entry => rest.dest[e] = rest.before[e]
    /\ rest.meta = {}

\* The second entry failed on a download while its destination already
\* existed and the first entry had been restored.
C37_Witness ==
  /\ rest.phase = "failed" /\ rest.why = "download"
  /\ rest.entry = 2
  /\ rest.before[2] = OldFile
  /\ rest.dest[1].bytes = InOrder(1, NumBlocks)
  /\ \E i \in BlockIdx : rest.f.blocks[i] # NoBlockData

\* ======================================================================
\* streamTarGz and streamZip: the calls made on the archive writer.
\* ======================================================================
NumArchEntries == 3   \* entries of the manifest that is streamed
ArchBlocks == 2       \* blocks of every file entry, each of one size unit

ArchEntries == 1..NumArchEntries
EntryTypes == {"dir", "symlink", "file"}

\* entry.Size of the manifest, the Size of the tar header.
DeclaredSize(type) == IF type = "file" THEN ArchBlocks ELSE 0

\* The select on ctx.Done() at the head of the per-entry loop.
LeavesLoopNever(cancelled) == FALSE
LeavesLoop(cancelled) == cancelled

Header(e, type) == [kind |-> "header", entry |-> e, size |-> DeclaredSize(type)]
Data(e) == [kind |-> "data", entry |-> e, size |-> 1]

InitArchive ==
  /\ blocks = [c \in Cids |-> NoBlock]
  /\ manifests = [m \in MIds |-> NoManifest]
  /\ block_refs = {}
  /\ s3 = [c \in Cids |-> NilBytes]
  /\ writeMu = Free
  /\ pc = [p \in Procs |-> "idle"]
  /\ arg = [p \in Procs |-> ZeroArg]
  /\ res = [p \in Procs |-> "none"]
  /\ known = {}
  /\ tree = <<>> /\ srv = <<>> /\ run = <<>> /\ wk = <<>> /\ out = <<>>
  /\ api = <<>> /\ limiter = <<>> /\ ipreq = <<>> /\ folder = <<>> /\ task = <<>>
  /\ pool = <<>> /\ rest = <<>> /\ scan = <<>>
  /\ \E format \in {"tar", "zip"}, types \in [ArchEntries -> EntryTypes] :
       arch = [format |-> format, types |-> types, i |-> 1, pos |-> "entry", b |-> 1,
               cancelled |-> FALSE, done |-> FALSE, emitted |-> <<>>]

archOther ==
  <<storageVars, clientVars, api, limiter, ipreq, folder, task, pool, rest, scan>>

\* api.go lines 506-546 and 572-603, the head of an iteration: return when
\* the context is done; else write the header of the entry (zip: a failed
\* CreateHeader of a file skips the entry), and go on to its blocks.
Arch_Entry(headerOk) ==
  /\ ~arch.done /\ arch.pos = "entry" /\ arch.i <= NumArchEntries
  /\ headerOk \/ (arch.format = "zip" /\ arch.types[arch.i] = "file")
  /\ LET t == arch.types[arch.i]
     IN IF LeavesLoop(arch.cancelled)
          THEN arch' = [arch EXCEPT !.done = TRUE]
          ELSE IF ~headerOk
            THEN arch' = [arch EXCEPT !.i = @ + 1]
            ELSE IF t = "file"
              THEN arch' = [arch EXCEPT !.emitted = Append(@, Header(arch.i, t)),
                                        !.pos = "blocks", !.b = 1]
              ELSE arch' = [arch EXCEPT !.emitted = Append(@, Header(arch.i, t)),
                                        !.i = @ + 1]
  /\ UNCHANGED archOther

\* Lines 549-561 and 606-618, one block of the file entry: a block that
\* GetBlock cannot deliver is passed over, else its bytes are written.
Arch_Block(fetchOk) ==
  /\ ~arch.done /\ arch.pos = "blocks"
  /\ LET wrote == IF fetchOk THEN Append(arch.emitted, Data(arch.i)) ELSE arch.emitted
     IN arch' = IF arch.b < ArchBlocks
                  THEN [arch EXCEPT !.emitted = wrote, !.b = @ + 1]
                  ELSE [arch EXCEPT !.emitted = wrote, !.b = 1, !.i = @ + 1,
                                    !.pos = "entry"]
  /\ UNCHANGED archOther

\* The loop has run through every entry; the deferred Close calls run.
Arch_End ==
  /\ ~arch.done /\ arch.pos = "entry" /\ arch.i > NumArchEntries
  /\ arch' = [arch EXCEPT !.done = TRUE]
  /\ UNCHANGED archOther

\* The client goes away: the request context is cancelled.
Arch_Cancel ==
  /\ ~arch.done /\ ~arch.cancelled
  /\ arch' = [arch EXCEPT !.cancelled = TRUE]
  /\ UNCHANGED archOther

NextArchive ==
  \/ \E ok \in BOOLEAN : Arch_Entry(ok)
  \/ \E ok \in BOOLEAN : Arch_Block(ok)
  \/ Arch_End
  \/ Arch_Cancel

SpecArchive == InitArchive /\ [][NextArchive]_vars

\* The size units written for the entry whose header is at position h,
\* up to the next header.
WrittenAfter(h) ==
  Cardinality({j \in (h + 1)..Len(arch.emitted) :
                 /\ arch.emitted[j].kind = "data"
                 /\ \A m \in (h + 1)..j : arch.emitted[m].kind = "data"})

\* ------------------------------------------------------------------- C34
\* C34: in a tar stream, a file entry whose header is followed by the
\* header of a later entry has had as many content bytes written as its
\* header declares.
C34_EntryBytesMatchHeader ==
  arch.format = "tar" =>
    \A h \in 1..Len(arch.emitted) :
      (/\ arch.emitted[h].kind = "header"
       /\ \E j \in (h + 1)..Len(arch.emitted) : arch.emitted[j].kind = "header")
      => WrittenAfter(h) = arch.emitted[h].size

\* ------------------------------------------------------------------- C35
\* C35: once the request context is cancelled, the streamer writes no
\* header, and the only blocks it still writes are those of the entry it
\* was in; at the head of the next iteration it returns.
C35_NoEntryAfterCancel ==
  [][arch.cancelled =>
       /\ arch'.emitted # arch.emitted
            => /\ arch.pos = "blocks"
               /\ arch'.emitted = Append(arch.emitted, Data(arch.i))
       /\ (arch.pos = "entry" /\ arch' # arch) => arch'.done]_vars

\* The context was cancelled inside a file entry; the entry was finished
\* and the streamer returned with entries left in the manifest.
C35_Witness ==
  /\ arch.done /\ arch.cancelled
  /\ arch.i <= NumArchEntries
  /\ arch.i > 1 /\ arch.types[arch.i - 1] = "file"
  /\ Len(arch.emitted) > 0
  /\ arch.emitted[Len(arch.emitted)] = Data(arch.i - 1)

\* ======================================================================
\* Scanner.Scan with its IgnoreMatcher.
\* ======================================================================
\* Paths relative to the root, as sequences of names.  WalkOrder is the
\* lexical order in which filepath.WalkDir reaches them.
RootDir == <<>>
WalkOrder ==
  << <<".gitignore">>,
     <<"a">>, <<"a", ".gitignore">>, <<"a", "x.log">>,
     <<"b">>, <<"b", ".gitignore">>, <<"b", "x.log">>,
     <<"c.log">> >>
ScanDirs == {RootDir, <<"a">>, <<"b">>}
IsDirPath(path) == path \in ScanDirs
Parent(path) == SubSeq(path, 1, Len(path) - 1)
\* dir is path itself or a directory above it.
IsUnder(path, dir) == Len(dir) <= Len(path) /\ SubSeq(path, 1, Len(dir)) = dir

\* The lines an ignore file may hold; NoIgnoreFile when there is none.
NoIgnoreFile == <<"absent">>
IgnoreFileContents == {NoIgnoreFile, <<"*.log">>, <<"x.log">>, <<"!*.log">>}

\* IgnoreMatcher.LoadFile lines 303-324: one pattern per line, with the
\* negation mark taken off.  `from` records the directory of the file; the
\* matcher keeps no such field.
ParseLine(line, dir) ==
  IF line = "!*.log"
    THEN [pattern |-> "*.log", negation |-> TRUE, dirOnly |-> FALSE, from |-> dir]
    ELSE [pattern |-> line, negation |-> FALSE, dirOnly |-> FALSE, from |-> dir]

LoadFile(patterns, content, dir) ==
  IF content = NoIgnoreFile THEN patterns
  ELSE patterns \o [i \in 1..Len(content) |-> ParseLine(content[i], dir)]

\* filepath.Match for the patterns in play: `*` does not match a
\* separator, so a path of several names matches none of them.
FilepathMatch(pattern, path) ==
  /\ Len(path) = 1
  /\ \/ pattern = path[1]
     \/ pattern = "*.log" /\ path[1] \in {"x.log", "c.log"}

\* matchGlob lines 386-393 for a pattern without `**`.
matchGlob(pattern, path) ==
  FilepathMatch(pattern, path) \/ FilepathMatch(pattern, <<Base(path)>>)

\* matchPattern lines 362-364 for a pattern without a slash.
matchPattern(pattern, path) ==
  matchGlob(pattern, <<Base(path)>>) \/ matchGlob(pattern, path)

\* IgnoreMatcher.Match lines 330-346: the last matching pattern decides.
RECURSIVE MatchFrom(_, _, _, _)
MatchFrom(patterns, path, isDir, ignored) ==
  IF patterns = <<>> THEN ignored
  ELSE LET p == Head(patterns)
       IN MatchFrom(Tail(patterns), path, isDir,
            IF p.dirOnly /\ ~isDir THEN ignored
            ELSE IF matchPattern(p.pattern, path) THEN ~p.negation
            ELSE ignored)
Match(patterns, path, isDir) == MatchFrom(patterns, path, isDir, FALSE)

\* A walked path exists unless it names an ignore file that is not there.
ExistsIn(files, path) ==
  Base(path) = ".gitignore" => files[Parent(path)] # NoIgnoreFile

InitScan ==
  /\ blocks = [c \in Cids |-> NoBlock]
  /\ manifests = [m \in MIds |-> NoManifest]
  /\ block_refs = {}
  /\ s3 = [c \in Cids |-> NilBytes]
  /\ writeMu = Free
  /\ pc = [p \in Procs |-> "idle"]
  /\ arg = [p \in Procs |-> ZeroArg]
  /\ res = [p \in Procs |-> "none"]
  /\ known = {}
  /\ tree = <<>> /\ srv = <<>> /\ run = <<>> /\ wk = <<>> /\ out = <<>>
  /\ api = <<>> /\ limiter = <<>> /\ ipreq = <<>> /\ folder = <<>> /\ task = <<>>
  /\ pool = <<>> /\ rest = <<>> /\ arch = <<>>
  /\ \E files \in [ScanDirs -> IgnoreFileContents] :
       scan = [files |-> files, phase |-> "start", i |-> 1, patterns |-> <<>>,
               results |-> <<>>, ignored |-> {}, skipped |-> {}]

scanOther ==
  <<storageVars, clientVars, api, limiter, ipreq, folder, task, pool, rest, arch>>

\* Scan lines 36-38: the ignore files of the root are loaded.
Scan_LoadRoot ==
  /\ scan.phase = "start"
  /\ scan' = [scan EXCEPT !.phase = "walk",
                          !.patterns = LoadFile(@, scan.files[RootDir], RootDir)]
  /\ UNCHANGED scanOther

\* Scan lines 40-128, the callback for the next path of the walk: an
\* ignored directory is skipped with what is below it, an ignored file is
\* passed over; a directory that is kept has its ignore files loaded into
\* the matcher; the entry is sent.
Scan_Visit ==
  /\ scan.phase = "walk" /\ scan.i <= Len(WalkOrder)
  /\ LET path == WalkOrder[scan.i]
         isDir == IsDirPath(path)
     IN IF ~ExistsIn(scan.files, path) \/ \E d \in scan.skipped : IsUnder(path, d)
          THEN scan' = [scan EXCEPT !.i = @ + 1]
          ELSE IF Match(scan.patterns, path, isDir)
            THEN scan' = [scan EXCEPT !.i = @ + 1,
                                      !.ignored = @ \cup {path},
                                      !.skipped = IF isDir THEN @ \cup {path} ELSE @]
            ELSE scan' = [scan EXCEPT !.i = @ + 1,
                                      !.patterns = IF isDir
                                                     THEN LoadFile(@, scan.files[path], path)
                                                     ELSE @,
                                      !.results = Append(@, path)]
  /\ UNCHANGED scanOther

\* Scan line 34: the walk is over and the channel is closed.
Scan_Close ==
  /\ scan.phase = "walk" /\ scan.i > Len(WalkOrder)
  /\ scan' = [scan EXCEPT !.phase = "closed"]
  /\ UNCHANGED scanOther

NextScan ==
  \/ Scan_LoadRoot
  \/ Scan_Visit
  \/ Scan_Close

SpecScan == InitScan /\ [][NextScan]_vars

\* The loaded patterns whose ignore file lies in the root or in a
\* directory above the path.
PatternsOver(path) ==
  SelectSeq(scan.patterns, LAMBDA p : IsUnder(Parent(path), p.from))

\* ------------------------------------------------------------------- C39
\* C39: an entry the scan has ignored is ignored by the patterns of the
\* ignore files in the root and in the directories above it alone: no
\* pattern loaded from another directory has made it so.
C39_PatternsStayInTheirDirectory ==
  \A path \in scan.ignored :
    Match(PatternsOver(path), path, IsDirPath(path))

====
